---- MODULE Spec2Model ----
(***************************************************************************)
(* EthGrid (contracts/EthGrid.sol): ownership of rectangular plots of a    *)
(* 250 x 250 grid, kept as an append-only array of ownership records with  *)
(* per-record hole lists, per-record auction prices, and the purchase      *)
(* validation / payout algorithm.                                          *)
(*                                                                         *)
(* Every uint256 of the contract (prices, wei amounts, the coordinates of  *)
(* the submitted sub-rectangles) is an exact natural number below 2^256,   *)
(* written as a little-endian sequence of base-10^4 digits without leading *)
(* zeros (<<>> is 0).  The uint24 fields of the stored records and of the  *)
(* `purchase` argument are plain naturals.                                 *)
(***************************************************************************)
EXTENDS Integers, Sequences, FiniteSets, TLC

\* the one element of a one-element set: The({e : v \in {d}}) is e with v
\* standing for the value of d, computed once
The(S) == CHOOSE x \in S : TRUE

----------------------------------------------------------------------------
(* uint256 arithmetic                                                      *)

\* radix of the digit sequences that stand for uint256 values
BASE == 10000

RECURSIVE U(_)
\* the uint256 with the value of the natural number n
U(n) == IF n = 0 THEN <<>> ELSE <<n % BASE>> \o U(n \div BASE)

RECURSIVE Trim(_)
\* drop the leading (most significant) zero digits
Trim(a) == IF a = <<>> THEN <<>>
           ELSE IF a[Len(a)] = 0 THEN Trim(SubSeq(a, 1, Len(a) - 1))
           ELSE a

RECURSIVE AddC(_, _, _)
\* a + b + c (c is the carry, 0 or 1), exact
AddC(a, b, c) ==
    IF a = <<>> /\ b = <<>> THEN (IF c = 0 THEN <<>> ELSE <<c>>)
    ELSE LET x == IF a = <<>> THEN 0 ELSE a[1]
             y == IF b = <<>> THEN 0 ELSE b[1]
             s == x + y + c
         IN  <<s % BASE>> \o AddC(IF a = <<>> THEN <<>> ELSE Tail(a),
                                  IF b = <<>> THEN <<>> ELSE Tail(b),
                                  s \div BASE)

\* a + b, exact
Plus(a, b) == AddC(a, b, 0)

RECURSIVE CmpFrom(_, _, _)
\* compares digits i, i-1, .. 1 of two sequences of the same length: -1, 0 or 1
CmpFrom(a, b, i) ==
    IF i = 0 THEN 0
    ELSE IF a[i] < b[i] THEN -1
    ELSE IF a[i] > b[i] THEN 1
    ELSE CmpFrom(a, b, i - 1)

\* a < b
Lt(a, b) == \/ Len(a) < Len(b)
            \/ Len(a) = Len(b) /\ CmpFrom(a, b, Len(a)) = -1

\* a <= b
Le(a, b) == ~Lt(b, a)

RECURSIVE SubB(_, _, _)
\* a - b - c for b + c <= a (c is the borrow), digits not yet trimmed
SubB(a, b, c) ==
    IF a = <<>> THEN <<>>
    ELSE LET y == IF b = <<>> THEN 0 ELSE b[1]
             d == a[1] - y - c
         IN  IF d < 0
             THEN <<d + BASE>> \o SubB(Tail(a), IF b = <<>> THEN <<>> ELSE Tail(b), 1)
             ELSE <<d>> \o SubB(Tail(a), IF b = <<>> THEN <<>> ELSE Tail(b), 0)

\* a - b for b <= a, exact
Minus(a, b) == Trim(SubB(a, b, 0))

RECURSIVE MulDigit(_, _, _)
\* a * d + c for a digit d and a carry c
MulDigit(a, d, c) ==
    IF a = <<>> THEN (IF c = 0 THEN <<>> ELSE <<c>>)
    ELSE LET p == a[1] * d + c
         IN  <<p % BASE>> \o MulDigit(Tail(a), d, p \div BASE)

RECURSIVE Times(_, _)
\* a * b, exact
Times(a, b) ==
    IF b = <<>> \/ a = <<>> THEN <<>>
    ELSE LET rest == Times(a, Tail(b))
         IN  Plus(Trim(MulDigit(a, b[1], 0)),
                  IF rest = <<>> THEN <<>> ELSE <<0>> \o rest)

RECURSIVE DivRem(_, _, _, _)
\* the digits of (r * BASE^i + a[1..i]) \div n, most significant first
DivRem(a, n, i, r) ==
    IF i = 0 THEN <<>>
    ELSE LET cur == r * BASE + a[i]
         IN  DivRem(a, n, i - 1, cur % n) \o <<cur \div n>>

\* a \div n for a natural number n in 1 .. 200000
DivNat(a, n) == Trim(DivRem(a, n, Len(a), 0))

\* 2^256
TwoTo256 ==
    <<9936, 2963, 9131, 4007, 5758, 394, 564, 6564, 9846, 3269,
      785, 6879, 5008, 7098, 4235, 6195, 3731, 892, 5792, 11>>

\* the largest uint256
MaxUint256 == Minus(TwoTo256, U(1))

\* Solidity 0.4 `a + b` on uint256: wraps modulo 2^256
WrapAdd(a, b) ==
    The({IF Lt(s, TwoTo256) THEN s ELSE Minus(s, TwoTo256) : s \in {Plus(a, b)}})

\* Solidity 0.4 `a - b` on uint256: wraps modulo 2^256
WrapSub(a, b) ==
    IF Le(b, a) THEN Minus(a, b) ELSE Minus(Plus(a, TwoTo256), b)

\* SafeMath results: ok = FALSE is the failed assert (the call reverts)
SafeMathAdd(a, b) ==
    The({IF Lt(s, TwoTo256) THEN [ok |-> TRUE, val |-> s] ELSE [ok |-> FALSE, val |-> <<>>] :
         s \in {Plus(a, b)}})

\* a subtraction that would wrap instead of failing
SafeMathSubWraps(a, b) == [ok |-> TRUE, val |-> WrapSub(a, b)]

SafeMathSub(a, b) ==
    IF Le(b, a) THEN [ok |-> TRUE, val |-> Minus(a, b)]
    ELSE [ok |-> FALSE, val |-> <<>>]

SafeMathMul(a, b) ==
    The({IF Lt(p, TwoTo256) THEN [ok |-> TRUE, val |-> p] ELSE [ok |-> FALSE, val |-> <<>>] :
         p \in {Times(a, b)}})

\* SafeMath.div by the constant divisor the contract uses
SafeMathDiv(a, n) == [ok |-> TRUE, val |-> DivNat(a, n)]

----------------------------------------------------------------------------
(* Geometry (contracts/Geometry.sol, imported by EthGrid.sol)              *)

\* Geometry.Rect.  EthGrid.sol builds it from uint24 fields and from
\* uint256[] elements alike, so its fields are uint256.
Rect(x, y, w, h) == [x |-> x, y |-> y, w |-> w, h |-> h]

\* the right and bottom edge of a rectangle cannot be computed in uint256
EdgeOverflows(r) == \/ ~SafeMathAdd(r.x, r.w).ok
                    \/ ~SafeMathAdd(r.y, r.h).ok

Max(a, b) == IF Lt(a, b) THEN b ELSE a
Min(a, b) == IF Lt(a, b) THEN a ELSE b

\* overlaps(a, b): ok = FALSE when an edge overflows; val is TRUE iff the two
\* rectangles share positive area (touching edges do not count)
doRectanglesOverlap(a, b) ==
    IF EdgeOverflows(a) \/ EdgeOverflows(b) THEN [ok |-> FALSE, val |-> FALSE]
    ELSE [ok  |-> TRUE,
          val |-> /\ Lt(Max(a.x, b.x), Min(Plus(a.x, a.w), Plus(b.x, b.w)))
                  /\ Lt(Max(a.y, b.y), Min(Plus(a.y, a.h), Plus(b.y, b.h)))]

\* intersection(a, b) of two overlapping rectangles: the largest rectangle
\* inside both
computeRectOverlap(a, b) ==
    LET x == Max(a.x, b.x)
        y == Max(a.y, b.y)
    IN  Rect(x, y,
             Minus(Min(Plus(a.x, a.w), Plus(b.x, b.w)), x),
             Minus(Min(Plus(a.y, a.h), Plus(b.y, b.h)), y))

----------------------------------------------------------------------------
(* EthGrid: constants and state                                            *)

\* an initial price of 20000 wei per pixel
InitialPriceOf20000Wei == U(20000)

GRID_WIDTH == 250
GRID_HEIGHT == 250
INITIAL_AUCTION_PRICE == Times(U(20000), U(1000000000))
FEE_IN_THOUSANDS_OF_PERCENT == 1000
MAXIMUM_PURCHASE_AREA == 1000

\* the ledger holds at most MaxRecords records (the initial one included)
MaxRecords == 3
\* a submitted tiling has at most MaxPieces pieces
MaxPieces == 3

\* the ids a record can have
RecordIds == 0 .. (MaxRecords - 1)

\* Ownable.owner: the deployer
owner == "admin"
\* the contract's own address, as a key of the balances
this == "EthGrid"
\* "vault" is a contract without a payable fallback: a transfer to it throws
Accounts == {"admin", "alice", "vault"}
NonPayable == {"vault"}

\* ZoneData of an id never written
NoData == [ipfsHash |-> "", url |-> ""]
\* the arguments and outcome of the call being reported; NoCall between calls
NoCall == [op |-> "none"]

VARIABLES
    ownership,          \* ZoneOwnership[]: sequence of [x, y, w, h, owner]; id i is ownership[i + 1]
    holes,              \* mapping(uint256 => uint256[]), on RecordIds
    tokenIdToAuction,   \* mapping(uint256 => uint256), on RecordIds: wei per pixel, 0 = not for sale
    data,               \* mapping(uint256 => ZoneData), on RecordIds
    balance,            \* wei held by each account and by the contract
    call,               \* the last call: its arguments, whether it reverted, its logs
    dispatched,         \* client: the actions dispatched to the store, in order
    purchaseRun,        \* client: where the purchasePlot thunk stands, and what it returned
    fetchRun,           \* client: where fetchAccountTransactions and its three getters stand
    watched             \* client: the number of watch callbacks delivered so far

vars == <<ownership, holes, tokenIdToAuction, data, balance, call,
          dispatched, purchaseRun, fetchRun, watched>>

\* the state of the web client
client == <<dispatched, purchaseRun, fetchRun, watched>>

\* the storage and the balances: what a revert restores
chain == <<ownership, holes, tokenIdToAuction, data, balance>>

\* ownership[id] of the Solidity array
Zone(id) == ownership[id + 1]
\* ownership.length
ownershipLength == Len(ownership)

\* one ether for every account; the constructor is sent no value
InitialBalance == Times(U(1000000000), U(1000000000))

Init ==
    /\ ownership = <<[x |-> 0, y |-> 0, w |-> GRID_WIDTH, h |-> GRID_HEIGHT, owner |-> owner]>>
    /\ holes = [i \in RecordIds |-> <<>>]
    /\ data = [i \in RecordIds |->
                 IF i = 0 THEN [ipfsHash |-> "Qmb51AikiN8p6JsEcCZgrV4d7C6d6uZnCmfmaT15VooUyv/img.svg",
                                url |-> "https://www.ethplot.com/"]
                 ELSE NoData]
    /\ tokenIdToAuction = [i \in RecordIds |-> IF i = 0 THEN INITIAL_AUCTION_PRICE ELSE <<>>]
    /\ balance = [a \in Accounts \cup {this} |-> IF a = this THEN <<>> ELSE InitialBalance]
    /\ call = NoCall
    /\ dispatched = <<>>
    /\ purchaseRun = [pc |-> "idle", run |-> 0, result |-> "none"]
    /\ fetchRun = [pc |-> "idle",
                   getters |-> [g \in {"auction", "purchase", "sale"} |-> "idle"]]
    /\ watched = 0

----------------------------------------------------------------------------
(* validatePurchases: lines 278-322 (the checks before any payment)        *)

\* Solidity 0.4 `a * b` on two uint256 that were widened from uint24: the
\* product is below 2^48 and cannot wrap
WrapMul24(a, b) == Times(a, b)

\* Geometry.Rect(purchase[0], purchase[1], purchase[2], purchase[3])
TargetRect(purchase) ==
    Rect(U(purchase[1]), U(purchase[2]), U(purchase[3]), U(purchase[4]))

\* rects[i] (i from 1): Geometry.Rect of purchasedAreas[4(i-1)] .. [4(i-1)+3]
PieceRects(purchasedAreas) ==
    [i \in 1 .. (Len(purchasedAreas) \div 4) |->
        Rect(purchasedAreas[4 * (i - 1) + 1], purchasedAreas[4 * (i - 1) + 2],
             purchasedAreas[4 * (i - 1) + 3], purchasedAreas[4 * (i - 1) + 4])]

\* target requires with a line 287 that would admit the maximum area itself
TargetFailureUpToTheMaximum(purchase) ==
    IF Len(purchase) # 4 THEN 279
    ELSE LET r == TargetRect(purchase)
         IN  IF ~(Lt(r.x, U(GRID_WIDTH)) /\ Le(U(0), r.x)) THEN 283
             ELSE IF ~(Lt(r.y, U(GRID_HEIGHT)) /\ Le(U(0), r.y)) THEN 284
             ELSE IF ~(Lt(U(0), r.w) /\ Le(WrapAdd(r.w, r.x), U(GRID_WIDTH))) THEN 285
             ELSE IF ~(Lt(U(0), r.h) /\ Le(WrapAdd(r.h, r.y), U(GRID_HEIGHT))) THEN 286
             ELSE IF ~Le(WrapMul24(r.w, r.h), U(MAXIMUM_PURCHASE_AREA)) THEN 287
             ELSE 0

\* target requires without the width, height and edge checks of lines 285-286
TargetFailureWithoutEdges(purchase) ==
    IF Len(purchase) # 4 THEN 279
    ELSE LET r == TargetRect(purchase)
         IN  IF ~(Lt(r.x, U(GRID_WIDTH)) /\ Le(U(0), r.x)) THEN 283
             ELSE IF ~(Lt(r.y, U(GRID_HEIGHT)) /\ Le(U(0), r.y)) THEN 284
             ELSE IF ~Lt(WrapMul24(r.w, r.h), U(MAXIMUM_PURCHASE_AREA)) THEN 287
             ELSE 0

\* the line of the first failing require among lines 279-287, 0 if none fails
TargetFailure(purchase) ==
    IF Len(purchase) # 4 THEN 279
    ELSE LET r == TargetRect(purchase)
         IN  IF ~(Lt(r.x, U(GRID_WIDTH)) /\ Le(U(0), r.x)) THEN 283
             ELSE IF ~(Lt(r.y, U(GRID_HEIGHT)) /\ Le(U(0), r.y)) THEN 284
             ELSE IF ~(Lt(U(0), r.w) /\ Le(WrapAdd(r.w, r.x), U(GRID_WIDTH))) THEN 285
             ELSE IF ~(Lt(U(0), r.h) /\ Le(WrapAdd(r.h, r.y), U(GRID_HEIGHT))) THEN 286
             ELSE IF ~Lt(WrapMul24(r.w, r.h), U(MAXIMUM_PURCHASE_AREA)) THEN 287
             ELSE 0

\* the line of the first failing require among lines 289-292, 0 if none fails
ArrayFailure(purchasedAreas, areaIndices) ==
    IF ~(Len(purchasedAreas) >= 4) THEN 289
    ELSE IF ~(Len(areaIndices) > 0) THEN 290
    ELSE IF ~(Len(purchasedAreas) % 4 = 0) THEN 291
    ELSE IF ~(Len(purchasedAreas) \div 4 = Len(areaIndices)) THEN 292
    ELSE 0

\* line 311 / 312: the piece's right (bottom) edge against the target's
InsideRight(rect, target) == Le(WrapAdd(rect.x, rect.w), WrapAdd(target.x, target.w))
InsideBottom(rect, target) == Le(WrapAdd(rect.y, rect.h), WrapAdd(target.y, target.h))

\* line 306: totalArea = SafeMath.add(totalArea, SafeMath.mul(rect.w, rect.h))
AddArea(totalArea, rect) ==
    The({IF m.ok THEN SafeMathAdd(totalArea, m.val) ELSE m : m \in {SafeMathMul(rect.w, rect.h)}})

RECURSIVE AreaLoop(_, _, _, _)
\* the loop of lines 299-313 from piece i on: the failing line (0: none) and totalArea
AreaLoop(target, rects, i, totalArea) ==
    IF i > Len(rects) THEN [line |-> 0, totalArea |-> totalArea]
    ELSE The({IF ~a.ok THEN [line |-> 306, totalArea |-> totalArea]
              ELSE IF ~Le(target.x, rects[i].x) THEN [line |-> 309, totalArea |-> a.val]
              ELSE IF ~Le(target.y, rects[i].y) THEN [line |-> 310, totalArea |-> a.val]
              ELSE IF ~InsideRight(rects[i], target) THEN [line |-> 311, totalArea |-> a.val]
              ELSE IF ~InsideBottom(rects[i], target) THEN [line |-> 312, totalArea |-> a.val]
              ELSE AreaLoop(target, rects, i + 1, a.val) :
              a \in {AddArea(totalArea, rects[i])}})

\* line 315
AreaMatches(totalArea, target) == totalArea = WrapMul24(target.w, target.h)

\* lines 318-322: some pair fails require(!Geometry.doRectanglesOverlap(..))
SomePairOverlaps(rects) ==
    \E i \in 1 .. Len(rects) : \E j \in (i + 1) .. Len(rects) :
        \E o \in {doRectanglesOverlap(rects[i], rects[j])} : ~o.ok \/ o.val

\* the line of the first failing require of validatePurchases before it calls
\* distributePurchaseFunds (lines 279-322), 0 if none fails
TilingFailure(purchase, purchasedAreas, areaIndices) ==
    The({IF target # 0 THEN target
         ELSE IF ArrayFailure(purchasedAreas, areaIndices) # 0
              THEN ArrayFailure(purchasedAreas, areaIndices)
         ELSE The({IF loop.line # 0 THEN loop.line
                   ELSE IF ~AreaMatches(loop.totalArea, TargetRect(purchase)) THEN 315
                   ELSE IF SomePairOverlaps(PieceRects(purchasedAreas)) THEN 320
                   ELSE 0 :
                   loop \in {AreaLoop(TargetRect(purchase), PieceRects(purchasedAreas),
                                      1, U(0))}}) :
         target \in {TargetFailure(purchase)}})

----------------------------------------------------------------------------
(* distributePurchaseFunds: lines 169-216, and getPriceOfAuctionedZone     *)

\* Geometry.Rect of ownership[id]
ZoneRect(id) == Rect(U(Zone(id).x), U(Zone(id).y), U(Zone(id).w), U(Zone(id).h))

\* a loop over the holes that would stop before the last hole
LastHoleSkipped(rect, ownershipIndex) ==
    \E holeIndex \in 1 .. (Len(holes[ownershipIndex]) - 1) :
        \E o \in {doRectanglesOverlap(rect, ZoneRect(holes[ownershipIndex][holeIndex]))} :
            ~o.ok \/ o.val

\* a loop over the holes that would check nothing
NoHoleOverlaps(rect, ownershipIndex) == FALSE

\* lines 192-201: some hole of the zone fails
\* require(!Geometry.doRectanglesOverlap(rects[areaIndicesIndex], holeRect))
SomeHoleOverlaps(rect, ownershipIndex) ==
    \E holeIndex \in 1 .. Len(holes[ownershipIndex]) :
        \E o \in {doRectanglesOverlap(rect, ZoneRect(holes[ownershipIndex][holeIndex]))} :
            ~o.ok \/ o.val

\* lines 186-189: the piece lies inside the overlap of the target and the zone
InsideOverlap(rect, overlap) ==
    IF ~Le(overlap.x, rect.x) THEN 186
    ELSE IF ~Le(overlap.y, rect.y) THEN 187
    ELSE IF ~Le(WrapAdd(rect.x, rect.w), WrapAdd(overlap.x, overlap.w)) THEN 188
    ELSE IF ~Le(WrapAdd(rect.y, rect.h), WrapAdd(overlap.y, overlap.h)) THEN 189
    ELSE 0

\* a loop body without the requires of lines 182-189: the piece is only
\* checked against the holes
PieceFailureWithoutOverlap(rectToPurchase, rect, ownershipIndex) ==
    IF ~(ownershipIndex < ownershipLength) THEN 178
    ELSE IF SomeHoleOverlaps(rect, ownershipIndex) THEN 200
    ELSE 0

\* a loop body without the loop over the holes of lines 192-201
PieceFailureWithoutHoles(rectToPurchase, rect, ownershipIndex) ==
    IF ~(ownershipIndex < ownershipLength) THEN 178
    ELSE The({IF ~o.ok \/ ~o.val THEN 182
              ELSE InsideOverlap(rect, computeRectOverlap(rectToPurchase,
                                                          ZoneRect(ownershipIndex))) :
              o \in {doRectanglesOverlap(rectToPurchase, ZoneRect(ownershipIndex))}})

\* lines 175-201 for one piece: the line that fails, 0 if none.  Line 178 is
\* the read of ownership[ownershipIndex] past the end of the array.
PieceFailure(rectToPurchase, rect, ownershipIndex) ==
    IF ~(ownershipIndex < ownershipLength) THEN 178
    ELSE The({IF ~o.ok \/ ~o.val THEN 182
              ELSE The({IF inside # 0 THEN inside
                        ELSE IF SomeHoleOverlaps(rect, ownershipIndex) THEN 200
                        ELSE 0 :
                        inside \in {InsideOverlap(rect,
                                       computeRectOverlap(rectToPurchase,
                                                          ZoneRect(ownershipIndex)))}}) :
              o \in {doRectanglesOverlap(rectToPurchase, ZoneRect(ownershipIndex))}})

\* a price that would leave out the area of the piece
getPricePerPixel(rectToPurchase, auctionedZoneId) ==
    IF ~Lt(U(0), tokenIdToAuction[auctionedZoneId])
    THEN [ok |-> FALSE, line |-> 341, val |-> <<>>]
    ELSE [ok |-> TRUE, line |-> 0, val |-> tokenIdToAuction[auctionedZoneId]]

\* a price computed without the require of line 341
getPriceWithoutRequire(rectToPurchase, auctionedZoneId) ==
    [ok |-> TRUE, line |-> 0,
     val |-> Times(Times(rectToPurchase.w, rectToPurchase.h), tokenIdToAuction[auctionedZoneId])]

\* getPriceOfAuctionedZone (lines 338-344): ok = FALSE with the failing line
getPriceOfAuctionedZone(rectToPurchase, auctionedZoneId) ==
    IF ~Lt(U(0), tokenIdToAuction[auctionedZoneId])
    THEN [ok |-> FALSE, line |-> 341, val |-> <<>>]
    ELSE The({IF ~area.ok THEN [ok |-> FALSE, line |-> 343, val |-> <<>>]
              ELSE The({IF ~price.ok THEN [ok |-> FALSE, line |-> 343, val |-> <<>>]
                        ELSE [ok |-> TRUE, line |-> 0, val |-> price.val] :
                        price \in {SafeMathMul(area.val, tokenIdToAuction[auctionedZoneId])}}) :
              area \in {SafeMathMul(rectToPurchase.w, rectToPurchase.h)}})

\* a payout after every piece
PayoutAfterEveryPiece(areaIndices, i) == TRUE

\* line 210: this piece ends a run of pieces of one ownership index
PayoutDue(areaIndices, i) ==
    i = Len(areaIndices) \/ areaIndices[i] # areaIndices[i + 1]

\* address.transfer(amount) from the contract: throws when the contract holds
\* less than amount or the recipient takes no ether
TransferFails(bal, to, amount) == Lt(bal[this], amount) \/ to \in NonPayable

\* a transfer that would credit the recipient and leave the contract's
\* balance as it was
TransferWithoutDebit(bal, to, amount) == [bal EXCEPT ![to] = Plus(@, amount)]

\* the balances after the contract has sent amount to `to`
Transfer(bal, to, amount) ==
    LET debited == [bal EXCEPT ![this] = Minus(@, amount)]
    IN  [debited EXCEPT ![to] = Plus(@, amount)]

\* event PlotSectionSold(zoneId, totalPrice, buyer, seller)
PlotSectionSold(zoneId, totalPrice, buyer, seller) ==
    [event |-> "PlotSectionSold", zoneId |-> zoneId, totalPrice |-> totalPrice,
     buyer |-> buyer, seller |-> seller]

\* a reverted execution that stopped at `line`: nothing of its effects stays
Reverted(st, line) == [st EXCEPT !.line = line]

\* the execution st after piece i has passed the checks of lines 175-201
Checked(st, i) == [st EXCEPT !.steps = Append(@, [step |-> "checked", piece |-> i])]

\* the execution st after line 212-214 has paid `amount` for the run that
\* ends with piece i
Paid(st, i, sender, ownershipIndex, amount) ==
    [st EXCEPT !.owed = U(0),
               !.bal = Transfer(@, Zone(ownershipIndex).owner, amount),
               !.logs = Append(@, PlotSectionSold(ownershipIndex, amount, sender,
                                                  Zone(ownershipIndex).owner)),
               !.steps = Append(@, [step |-> "paid", piece |-> i])]

RECURSIVE DistributeLoop(_, _, _, _, _, _)
\* the loop of lines 174-216 from piece i on.  st is the execution so far:
\*   remaining (remainingBalance), owed (owedToSeller), bal (the balances as
\*   the execution has changed them), logs (events emitted), steps (the order
\*   in which pieces were checked and sellers paid), line (0 while running)
DistributeLoop(sender, rectToPurchase, rects, areaIndices, i, st) ==
    IF i > Len(areaIndices) THEN st
    ELSE The({
      IF failure # 0 THEN Reverted(st, failure)
      ELSE The({
        IF ~sectionPrice.ok THEN Reverted(Checked(st, i), sectionPrice.line)
        ELSE The({
          IF ~remaining.ok THEN Reverted(Checked(st, i), 206)
          ELSE IF ~owed.ok THEN Reverted(Checked(st, i), 207)
          ELSE IF ~PayoutDue(areaIndices, i)
               THEN DistributeLoop(sender, rectToPurchase, rects, areaIndices, i + 1,
                        [Checked(st, i) EXCEPT !.remaining = remaining.val,
                                               !.owed = owed.val])
          ELSE IF TransferFails(st.bal, Zone(areaIndices[i]).owner, owed.val)
               THEN Reverted(Checked(st, i), 212)
          ELSE DistributeLoop(sender, rectToPurchase, rects, areaIndices, i + 1,
                   Paid([Checked(st, i) EXCEPT !.remaining = remaining.val],
                        i, sender, areaIndices[i], owed.val)) :
          remaining \in {SafeMathSub(st.remaining, sectionPrice.val)},
          owed \in {SafeMathAdd(st.owed, sectionPrice.val)}}) :
        sectionPrice \in {getPriceOfAuctionedZone(rects[i], areaIndices[i])}}) :
      failure \in {PieceFailure(rectToPurchase, rects[i], areaIndices[i])}})

\* distributePurchaseFunds(rectToPurchase, rects, areaIndices) in a call that
\* carries msg.value = value, which the contract has already received
distributePurchaseFunds(sender, value, rectToPurchase, rects, areaIndices) ==
    DistributeLoop(sender, rectToPurchase, rects, areaIndices, 1,
        [remaining |-> value,
         owed |-> U(0),
         bal |-> [balance EXCEPT ![sender] = Minus(@, value), ![this] = Plus(@, value)],
         logs |-> <<>>,
         steps |-> <<>>,
         line |-> 0])

\* the outcome of an execution that stopped at `line` (0: ran to its end)
Outcome(line, price, paid) ==
    [line |-> line, price |-> price, bal |-> paid.bal, logs |-> paid.logs,
     steps |-> paid.steps]

\* lines 327-333 without the require of line 331
FeeCheckSkipped(value, paid) == Outcome(0, SafeMathSub(value, paid.remaining).val, paid)

\* lines 327-333 after distributePurchaseFunds has returned: purchasePrice,
\* the fee on it, and the require of line 331
FeeCheck(value, paid) ==
    The({The({IF ~product.ok THEN Outcome(330, <<>>, paid)
              ELSE IF ~Le(SafeMathDiv(product.val, 1000 * 100).val, paid.remaining)
                   THEN Outcome(331, <<>>, paid)
              ELSE Outcome(0, purchasePrice, paid) :
              product \in {SafeMathMul(purchasePrice, U(FEE_IN_THOUSANDS_OF_PERCENT))}}) :
         purchasePrice \in {SafeMathSub(value, paid.remaining).val}})

\* validatePurchases (lines 278-334): the execution, with price = purchasePrice
validatePurchases(sender, value, purchase, purchasedAreas, areaIndices) ==
    The({IF early # 0
         THEN [line |-> early, price |-> <<>>, bal |-> balance, logs |-> <<>>, steps |-> <<>>]
         ELSE The({IF paid.line # 0 THEN Outcome(paid.line, <<>>, paid)
                   ELSE FeeCheck(value, paid) :
                   paid \in {distributePurchaseFunds(sender, value, TargetRect(purchase),
                                                     PieceRects(purchasedAreas), areaIndices)}}) :
         early \in {TilingFailure(purchase, purchasedAreas, areaIndices)}})

----------------------------------------------------------------------------
(* The calls submitted to the contract                                     *)

\* `purchase` arrays: three targets in the strip of cells (0,0) (1,0) (2,0),
\* and one array for each require of lines 279-287 to reject
ValidPurchases == {<<1, 0, 1, 1>>, <<2, 0, 1, 1>>, <<0, 0, 3, 1>>}
RejectedPurchases ==
    {<<0, 0, 1>>, <<250, 0, 1, 1>>, <<0, 250, 1, 1>>, <<249, 0, 2, 1>>, <<0, 0, 0, 1>>,
     <<0, 249, 1, 2>>, <<0, 0, 1, 0>>, <<0, 0, 40, 25>>}

\* sub-rectangles a tiling is made of: the cells (0,0), (1,0), (2,0), the
\* rectangle of the first two cells, a rectangle of no width, and a rectangle
\* of three cells whose right edge x + w wraps around 2^256
PieceChoices ==
    <<Rect(U(0), U(0), U(1), U(1)), Rect(U(1), U(0), U(1), U(1)), Rect(U(2), U(0), U(1), U(1)),
      Rect(U(0), U(0), U(2), U(1)), Rect(U(0), U(0), U(0), U(1)),
      Rect(MaxUint256, U(0), U(3), U(1))>>

\* The tilings of 1 .. MaxPieces pieces, as sequences of indices into
\* PieceChoices.  What validatePurchases decides on the geometry does not
\* depend on the order of the pieces: a tiling lists its pieces in the order
\* of PieceChoices, and the ownership indices attributed to them vary freely.
PieceSeqs ==
    {ps \in UNION {[1 .. n -> 1 .. Len(PieceChoices)] : n \in 1 .. MaxPieces} :
        \A i \in 1 .. (Len(ps) - 1) : ps[i] <= ps[i + 1]}

RECURSIVE Flatten(_)
\* the uint256[] purchasedAreas that encodes the pieces ps of PieceChoices
Flatten(ps) ==
    IF ps = <<>> THEN <<>>
    ELSE LET rect == PieceChoices[ps[1]]
         IN  <<rect.x, rect.y, rect.w, rect.h>> \o Flatten(Tail(ps))

\* (purchasedAreas, areaIndices) pairs for the requires of lines 289-292 to reject
MalformedArrays ==
    {<<<<>>, <<0>>>>,
     <<<<U(1), U(0), U(1), U(1)>>, <<>>>>,
     <<<<U(1), U(0), U(1), U(1), U(0)>>, <<0>>>>,
     <<<<U(1), U(0), U(1), U(1)>>, <<0, 0>>>>}

\* the accounts that buy, the prices set, the metadata submitted
Buyers == {"alice", "vault"}
PriceChoices == {U(0), U(50)}
NewData == [ipfsHash |-> "QmNew/img.svg", url |-> "https://example.org/"]

RECURSIVE Quote(_, _, _)
\* what the pieces from i on cost at the stored prices (pieces of an unknown
\* ownership index left out): the amount a buyer's client would send
Quote(rects, areaIndices, i) ==
    IF i > Len(rects) THEN U(0)
    ELSE Plus(IF areaIndices[i] < ownershipLength
              THEN Times(Times(rects[i].w, rects[i].h), tokenIdToAuction[areaIndices[i]])
              ELSE U(0),
              Quote(rects, areaIndices, i + 1))

\* the fee the contract asks on top of a price
FeeOn(price) == DivNat(Times(price, U(FEE_IN_THOUSANDS_OF_PERCENT)), 1000 * 100)

\* values sent with a purchase that costs q: one wei short of q, q, one wei
\* short of q plus the fee, q plus the fee
Values(q) ==
    {WrapSub(Plus(q, d), U(1)) : d \in {U(0), FeeOn(q)} \ (IF q = U(0) THEN {U(0)} ELSE {})}
    \cup {q, Plus(q, FeeOn(q))}

Arguments(sender, value, purchase, purchasedAreas, areaIndices, price) ==
    [sender |-> sender, value |-> value, purchase |-> purchase,
     purchasedAreas |-> purchasedAreas, areaIndices |-> areaIndices,
     ipfsHash |-> NewData.ipfsHash, url |-> NewData.url,
     initialBuyoutPriceInWeiPerPixel |-> price]

\* the targets with the tilings that pass lines 279-322
WellTiled ==
    {q \in ValidPurchases \X PieceSeqs :
        TilingFailure(q[1], Flatten(q[2]), [i \in 1 .. Len(q[2]) |-> 0]) = 0}

\* the tilings that the loop of lines 299-313 rejects before their last piece
\* (it reads no piece after the one it rejects)
RejectedBeforeLast ==
    {q \in ValidPurchases \X PieceSeqs :
        /\ Len(q[2]) > 1
        /\ TilingFailure(q[1], Flatten(SubSeq(q[2], 1, Len(q[2]) - 1)),
                         [i \in 1 .. (Len(q[2]) - 1) |-> 0]) \in {306, 309, 310, 311, 312}}

\* Calls that lines 279-322 reject.  These lines read neither the ownership
\* indices nor msg.value nor msg.sender: one call for each target and tiling,
\* the tilings rejected before their last piece left out.
RejectedEarly ==
    {Arguments("alice", U(0), p, <<U(1), U(0), U(1), U(1)>>, <<0>>, U(0)) :
        p \in RejectedPurchases}
    \cup {Arguments("alice", U(0), <<1, 0, 1, 1>>, m[1], m[2], U(0)) : m \in MalformedArrays}
    \cup {Arguments("alice", U(0), q[1], Flatten(q[2]), [i \in 1 .. Len(q[2]) |-> 0], U(0)) :
            q \in ((ValidPurchases \X PieceSeqs) \ WellTiled) \ RejectedBeforeLast}

\* the attributions of n pieces to ownership indices: any existing index for
\* every piece, or the index past the end of the array for the last piece
Attributions(n) ==
    {ai \in [1 .. n -> 0 .. ownershipLength] :
        \A i \in 1 .. (n - 1) : ai[i] < ownershipLength}

\* Calls that reach distributePurchaseFunds: every well-tiled target, every
\* attribution, every value around the quoted price.
Settled ==
    UNION {
      UNION {
        {Arguments("alice", value, q[1], Flatten(q[2]), ai, U(0)) :
            value \in Values(Quote(PieceRects(Flatten(q[2])), ai, 1))} :
        ai \in Attributions(Len(q[2]))} :
      q \in WellTiled}

\* The largest target line 287 admits, 37 x 27 = MAXIMUM_PURCHASE_AREA - 1
\* pixels, bought in one piece under every attribution and value.
LargestPurchase == <<0, 0, 37, 27>>
SettledAtTheLimit ==
    UNION {
      {Arguments("alice", value, LargestPurchase, <<U(0), U(0), U(37), U(27)>>, ai, U(0)) :
          value \in Values(Quote(<<Rect(U(0), U(0), U(37), U(27))>>, ai, 1))} :
      ai \in Attributions(1)}

\* The targets of the purchases of a plot of 5 x 5 pixels at (10,10), of
\* 2 x 2 pixels inside it and of its first pixel, each bought in one piece
\* under every attribution and value.
PlotPurchases == {<<10, 10, 5, 5>>, <<11, 11, 2, 2>>, <<10, 10, 1, 1>>}
SettledPlots ==
    UNION {
      UNION {
        {Arguments("alice", value, p, <<U(p[1]), U(p[2]), U(p[3]), U(p[4])>>, ai, U(0)) :
            value \in Values(Quote(<<TargetRect(p)>>, ai, 1))} :
        ai \in Attributions(1)} :
      p \in PlotPurchases}

Submissions == RejectedEarly \cup Settled \cup SettledAtTheLimit \cup SettledPlots

----------------------------------------------------------------------------
(* The external functions                                                  *)

RECURSIVE PushHolesInFront(_, _, _, _)
\* pushes that would put the new id in front of a hole list
PushHolesInFront(h, areaIndices, i, id) ==
    IF i > Len(areaIndices) THEN h
    ELSE PushHolesInFront([h EXCEPT ![areaIndices[i]] = <<id>> \o @], areaIndices, i + 1, id)

RECURSIVE PushHoles(_, _, _, _)
\* lines 99-101: holes[areaIndices[i]].push(id) for every i
PushHoles(h, areaIndices, i, id) ==
    IF i > Len(areaIndices) THEN h
    ELSE PushHoles([h EXCEPT ![areaIndices[i]] = Append(@, id)], areaIndices, i + 1, id)

\* an event that would announce the length of the array after the push of
\* lines 113-120 instead of the new record's index
PlotPurchasedAfterPush(newZoneId, totalPrice, buyer) ==
    [event |-> "PlotPurchased", newZoneId |-> newZoneId + 1, totalPrice |-> totalPrice,
     buyer |-> buyer]

\* event PlotPurchased(newZoneId, totalPrice, buyer)
PlotPurchased(newZoneId, totalPrice, buyer) ==
    [event |-> "PlotPurchased", newZoneId |-> newZoneId, totalPrice |-> totalPrice,
     buyer |-> buyer]

\* event AuctionUpdated(tokenId, newPriceInWeiPerPixel, owner)
AuctionUpdated(tokenId, newPriceInWeiPerPixel, by) ==
    [event |-> "AuctionUpdated", tokenId |-> tokenId,
     newPriceInWeiPerPixel |-> newPriceInWeiPerPixel, owner |-> by]

\* a revert that would give the contract its balance back and leave the
\* accounts as the execution r left them
BalanceOfTheContractRestored(r) == [r.bal EXCEPT ![this] = balance[this]]

\* a revert that would not undo the transfers of the execution r
BalanceKeptOnRevert(r) == r.bal

\* the balances a reverted call leaves: those before the call (the EVM undoes
\* the value transfer and every seller transfer of the execution r)
BalanceAfterRevert(r) == balance

\* lines 95-120 after the execution r of validatePurchases, or the revert
Settle(a, r) ==
    LET id == ownershipLength
        reported == [op |-> "purchaseAreaWithData", sender |-> a.sender, value |-> a.value,
                     purchase |-> a.purchase, purchasedAreas |-> a.purchasedAreas,
                     areaIndices |-> a.areaIndices, ipfsHash |-> a.ipfsHash, url |-> a.url,
                     initialBuyoutPriceInWeiPerPixel |-> a.initialBuyoutPriceInWeiPerPixel,
                     line |-> r.line, steps |-> r.steps, logs |-> <<>>]
    IN  IF r.line # 0
        THEN /\ balance' = BalanceAfterRevert(r)
             /\ UNCHANGED <<ownership, holes, tokenIdToAuction, data>>
             /\ call' = reported
        ELSE /\ holes' = PushHoles([holes EXCEPT ![id] = <<>>], a.areaIndices, 1, id)
             /\ data' = [data EXCEPT ![id] = [ipfsHash |-> a.ipfsHash, url |-> a.url]]
             /\ tokenIdToAuction' =
                    [tokenIdToAuction EXCEPT ![id] = a.initialBuyoutPriceInWeiPerPixel]
             /\ ownership' = Append(ownership,
                    [x |-> a.purchase[1], y |-> a.purchase[2], w |-> a.purchase[3],
                     h |-> a.purchase[4], owner |-> a.sender])
             /\ balance' = r.bal
             /\ call' = [reported EXCEPT
                           !.logs = Append(r.logs, PlotPurchased(id, r.price, a.sender))]

\* purchaseAreaWithData (lines 84-122) with msg.sender = a.sender and
\* msg.value = a.value, which the sender must hold
purchaseAreaWithData(a) ==
    /\ Le(a.value, balance[a.sender])
    /\ \E r \in {validatePurchases(a.sender, a.value, a.purchase, a.purchasedAreas,
                                   a.areaIndices)} : Settle(a, r)

\* A call that succeeds for the first buyer is also submitted by every buyer,
\* with every initial price.
Variants(a) ==
    IF validatePurchases(a.sender, a.value, a.purchase, a.purchasedAreas,
                         a.areaIndices).line # 0
    THEN {a}
    ELSE {[a EXCEPT !.sender = sender, !.initialBuyoutPriceInWeiPerPixel = price] :
            sender \in Buyers, price \in PriceChoices}

PurchaseAreaWithData ==
    /\ call = NoCall
    /\ ownershipLength < MaxRecords
    /\ \E a \in Submissions : \E b \in Variants(a) : purchaseAreaWithData(b)
    /\ UNCHANGED client

\* a setAuctionPrice without the require of line 133 on the caller
setAuctionPriceByAnyone(sender, zoneIndex) ==
    IF ~(zoneIndex >= 0) THEN 131
    ELSE IF ~(zoneIndex < ownershipLength) THEN 132
    ELSE 0

\* setAuctionPrice (lines 130-136): the line of the failing require, 0 if none
setAuctionPriceFailure(sender, zoneIndex) ==
    IF ~(zoneIndex >= 0) THEN 131
    ELSE IF ~(zoneIndex < ownershipLength) THEN 132
    ELSE IF ~(sender = Zone(zoneIndex).owner) THEN 133
    ELSE 0

\* an updateAuction that would store the price for every existing zone
updateAuctionOfEveryZone(sender, zoneIndex, newPriceInWeiPerPixel) ==
    LET failure == setAuctionPriceFailure(sender, zoneIndex)
    IN  /\ tokenIdToAuction' =
               IF failure # 0 THEN tokenIdToAuction
               ELSE [r \in RecordIds |-> IF r < ownershipLength THEN newPriceInWeiPerPixel
                                         ELSE tokenIdToAuction[r]]
        /\ call' = [op |-> "updateAuction", sender |-> sender, zoneIndex |-> zoneIndex,
                    newPriceInWeiPerPixel |-> newPriceInWeiPerPixel, line |-> failure,
                    logs |-> IF failure # 0 THEN <<>>
                             ELSE <<AuctionUpdated(zoneIndex, newPriceInWeiPerPixel, sender)>>]
        /\ UNCHANGED <<ownership, holes, data, balance>>

\* updateAuction (lines 125-128)
updateAuction(sender, zoneIndex, newPriceInWeiPerPixel) ==
    LET failure == setAuctionPriceFailure(sender, zoneIndex)
        reported == [op |-> "updateAuction", sender |-> sender, zoneIndex |-> zoneIndex,
                     newPriceInWeiPerPixel |-> newPriceInWeiPerPixel, line |-> failure,
                     logs |-> <<>>]
    IN  /\ tokenIdToAuction' =
               IF failure # 0 THEN tokenIdToAuction
               ELSE [tokenIdToAuction EXCEPT ![zoneIndex] = newPriceInWeiPerPixel]
        /\ call' = [reported EXCEPT
                      !.logs = IF failure # 0 THEN <<>>
                               ELSE <<AuctionUpdated(zoneIndex, newPriceInWeiPerPixel, sender)>>]
        /\ UNCHANGED <<ownership, holes, data, balance>>

\* the callers of updateAuction: the owner of the zone and one other account
Callers(zoneIndex) ==
    IF zoneIndex < ownershipLength
    THEN {Zone(zoneIndex).owner, IF Zone(zoneIndex).owner = "alice" THEN owner ELSE "alice"}
    ELSE {"alice"}

\* a call that setAuctionPrice rejects is submitted with one price
UpdateAuction ==
    /\ call = NoCall
    /\ \E zoneIndex \in 0 .. ownershipLength :
       \E sender \in Callers(zoneIndex) :
          \E price \in IF setAuctionPriceFailure(sender, zoneIndex) # 0
                       THEN {U(50)} ELSE PriceChoices :
              updateAuction(sender, zoneIndex, price)
    /\ UNCHANGED client

\* a withdraw without the require of line 140 on the destination
withdrawToAnyAddress(sender, transferTo) ==
    IF ~(sender = owner) THEN 138
    ELSE IF TransferFails(balance, owner, balance[this]) THEN 143
    ELSE 0

\* withdraw (lines 138-144); line 138 is the onlyOwner modifier
withdrawFailure(sender, transferTo) ==
    IF ~(sender = owner) THEN 138
    ELSE IF ~(transferTo = owner) THEN 140
    ELSE IF TransferFails(balance, owner, balance[this]) THEN 143
    ELSE 0

withdraw(sender, transferTo) ==
    LET failure == withdrawFailure(sender, transferTo)
    IN  /\ balance' = IF failure # 0 THEN balance ELSE Transfer(balance, owner, balance[this])
        /\ call' = [op |-> "withdraw", sender |-> sender, transferTo |-> transferTo,
                    currentBalance |-> balance[this], line |-> failure, logs |-> <<>>]
        /\ UNCHANGED <<ownership, holes, tokenIdToAuction, data>>

Withdraw ==
    /\ call = NoCall
    /\ \E sender \in {owner, "alice"}, transferTo \in {owner, "alice"} :
           withdraw(sender, transferTo)
    /\ UNCHANGED client

\* What the caller of a failed call gets, by the line that failed.  The
\* requires carry no message and revert with empty return data; the asserts
\* of SafeMath (lines 206, 207, 306, 327, 330, 343) and the read past the end
\* of ownership (line 178) execute the invalid opcode, with no data either.
Thrown(line) ==
    IF line \in {178, 206, 207, 306, 327, 330, 343} THEN "invalid opcode" ELSE "revert"

\* the call has been reported; the next one is admitted (calls run one at a
\* time, each to its end)
NextCall ==
    /\ call # NoCall
    /\ call' = NoCall
    /\ UNCHANGED chain
    /\ UNCHANGED client

Next == PurchaseAreaWithData \/ UpdateAuction \/ Withdraw \/ NextCall

Spec == Init /\ [][Next]_vars

----------------------------------------------------------------------------
(* Properties of purchaseAreaWithData                                      *)

\* the step is a call of purchaseAreaWithData that reverted / that succeeded
PurchaseReverts == call'.op = "purchaseAreaWithData" /\ call'.line # 0
PurchaseSucceeds == call'.op = "purchaseAreaWithData" /\ call'.line = 0

\* the reported call is a purchase in which some seller had been paid
SomeSellerPaid == \E k \in 1 .. Len(call.steps) : call.steps[k].step = "paid"

\* C1: a purchaseAreaWithData that fails at any require, also after sellers
\* of earlier pieces were paid inside the loop, leaves the ownership array,
\* the hole lists, the prices, the metadata and every balance as they were.
C1_FailedPurchaseChangesNothing ==
    [][PurchaseReverts => chain' = chain]_vars

\* a purchase has failed after the loop had paid a seller
C1_FailedAfterPayout ==
    /\ call.op = "purchaseAreaWithData"
    /\ call.line \in {178, 182, 186, 188, 200, 206, 212, 331, 341}
    /\ SomeSellerPaid

\* The geometry the properties speak of, in exact arithmetic (no wrap): the
\* unit cells of the strip and its border, the cells a rectangle covers.
CellColumns == 0 .. 3
CellRows == 0 .. 1
Covers(r, cx, cy) ==
    /\ Le(r.x, U(cx)) /\ Lt(U(cx), Plus(r.x, r.w))
    /\ Le(r.y, U(cy)) /\ Lt(U(cy), Plus(r.y, r.h))
LiesInside(r, outer) ==
    /\ Le(outer.x, r.x) /\ Le(Plus(r.x, r.w), Plus(outer.x, outer.w))
    /\ Le(outer.y, r.y) /\ Le(Plus(r.y, r.h), Plus(outer.y, outer.h))
SharePositiveArea(a, b) ==
    \E cx \in CellColumns, cy \in CellRows : Covers(a, cx, cy) /\ Covers(b, cx, cy)

\* the pieces of the call a step makes, and the piece numbers
PiecesOf(c) == PieceRects(c.purchasedAreas)
PieceNumbers(c) == 1 .. Len(c.areaIndices)

\* C2: a purchase succeeds only if every cell of the target is covered by
\* exactly one piece and no piece reaches outside the target.
C2_ExactTiling ==
    [][PurchaseSucceeds =>
        /\ \A i \in PieceNumbers(call') :
              LiesInside(PiecesOf(call')[i], TargetRect(call'.purchase))
        /\ \A cx \in CellColumns, cy \in CellRows :
              Covers(TargetRect(call'.purchase), cx, cy) =>
                Cardinality({i \in PieceNumbers(call') :
                                Covers(PiecesOf(call')[i], cx, cy)}) = 1]_vars

\* C3: no piece of a successful purchase shares positive area with the
\* rectangle of a record that was in the hole list of the piece's ownership
\* record before the purchase.
C3_PiecesAvoidHoles ==
    [][PurchaseSucceeds =>
        \A i \in PieceNumbers(call') :
            \A k \in 1 .. Len(holes[call'.areaIndices[i]]) :
                ~SharePositiveArea(PiecesOf(call')[i],
                                   ZoneRect(holes[call'.areaIndices[i]][k]))]_vars

\* a purchase has succeeded with a piece bought from a record that already
\* had a hole (its hole list holds more entries than this purchase pushed)
C3_BoughtBesideAHole ==
    /\ call.op = "purchaseAreaWithData" /\ call.line = 0
    /\ \E i \in PieceNumbers(call) :
          Len(holes[call.areaIndices[i]]) >
              Cardinality({j \in PieceNumbers(call) : call.areaIndices[j] = call.areaIndices[i]})

Attributed(c) ==
    /\ Len(c.purchasedAreas) = 4 * Len(c.areaIndices)
    /\ \A i \in PieceNumbers(c) : c.areaIndices[i] < ownershipLength

RECURSIVE SumOfPrices(_, _, _)
\* the sum of w * h * price(ownership index) over the pieces from .. to of the
\* call c, at the prices stored now
SumOfPrices(c, from, to) ==
    IF from > to THEN U(0)
    ELSE Plus(Times(Times(PiecesOf(c)[from].w, PiecesOf(c)[from].h),
                    tokenIdToAuction[c.areaIndices[from]]),
              SumOfPrices(c, from + 1, to))

\* totalPrice of the call c
TotalPrice(c) == SumOfPrices(c, 1, Len(c.areaIndices))

\* C5: the totalPrice that PlotPurchased reports for a successful purchase is
\* the exact sum of w * h * price over the pieces, at the prices stored when
\* the purchase was made.
C5_TotalPriceIsExactSum ==
    [][PurchaseSucceeds =>
        /\ call'.logs[Len(call'.logs)].event = "PlotPurchased"
        /\ call'.logs[Len(call'.logs)].totalPrice = TotalPrice(call')]_vars

\* a purchase has succeeded with pieces bought at two different prices
C5_BoughtAtTwoPrices ==
    /\ call.op = "purchaseAreaWithData" /\ call.line = 0
    /\ \E i, j \in PieceNumbers(call) :
          /\ call.areaIndices[i] < Len(ownership) - 1
          /\ call.areaIndices[j] < Len(ownership) - 1
          /\ tokenIdToAuction[call.areaIndices[i]] # tokenIdToAuction[call.areaIndices[j]]

\* the maximal runs of equal ownership indices in the call c: where they
\* start, in order, and where the run that starts at piece i ends
RECURSIVE RunStarts(_, _)
RunStarts(c, i) ==
    IF i > Len(c.areaIndices) THEN <<>>
    ELSE (IF i = 1 \/ c.areaIndices[i - 1] # c.areaIndices[i] THEN <<i>> ELSE <<>>)
         \o RunStarts(c, i + 1)
RECURSIVE RunEnd(_, _)
RunEnd(c, i) ==
    IF i = Len(c.areaIndices) \/ c.areaIndices[i + 1] # c.areaIndices[i] THEN i
    ELSE RunEnd(c, i + 1)

\* the payments and the events of a sequence of log entries / of steps
IsSold(e) == e.event = "PlotSectionSold"
IsPaid(e) == e.step = "paid"

RECURSIVE PaidTo(_, _, _)
\* what the runs of c numbered k and up pay to the account acct
PaidTo(c, k, acct) ==
    IF k > Len(RunStarts(c, 1)) THEN U(0)
    ELSE Plus(IF Zone(c.areaIndices[RunStarts(c, 1)[k]]).owner = acct
              THEN SumOfPrices(c, RunStarts(c, 1)[k], RunEnd(c, RunStarts(c, 1)[k]))
              ELSE U(0),
              PaidTo(c, k + 1, acct))

\* C6: a successful purchase makes, for each maximal run of consecutive
\* pieces with one ownership index, one payment and one PlotSectionSold to
\* the owner of that record, of the sum of the prices of the run's pieces,
\* when the run ends and not before.
C6_OnePayoutPerRun ==
    [][PurchaseSucceeds =>
        /\ SelectSeq(call'.logs, IsSold) =
              [k \in 1 .. Len(RunStarts(call', 1)) |->
                  PlotSectionSold(
                      call'.areaIndices[RunStarts(call', 1)[k]],
                      SumOfPrices(call', RunStarts(call', 1)[k],
                                  RunEnd(call', RunStarts(call', 1)[k])),
                      call'.sender,
                      Zone(call'.areaIndices[RunStarts(call', 1)[k]]).owner)]
        /\ SelectSeq(call'.steps, IsPaid) =
              [k \in 1 .. Len(RunStarts(call', 1)) |->
                  [step |-> "paid", piece |-> RunEnd(call', RunStarts(call', 1)[k])]]
        /\ \A acct \in Accounts :
              Plus(balance'[acct], IF acct = call'.sender THEN call'.value ELSE U(0)) =
                Plus(balance[acct], PaidTo(call', 1, acct))
        /\ Plus(balance'[this], TotalPrice(call')) = Plus(balance[this], call'.value)]_vars

\* a purchase has succeeded whose tiling holds a run of two pieces and
\* another run
C6_PaidARunOfTwo ==
    /\ call.op = "purchaseAreaWithData" /\ call.line = 0
    /\ \E i, j \in PieceNumbers(call) :
          /\ i + 1 \in PieceNumbers(call)
          /\ call.areaIndices[i] = call.areaIndices[i + 1]
          /\ call.areaIndices[j] # call.areaIndices[i]

\* the occurrences of some ownership index in the sequence are separated by
\* another index
NonContiguous(areaIndices) ==
    \E i, j, k \in 1 .. Len(areaIndices) :
        /\ i < j /\ j < k
        /\ areaIndices[i] = areaIndices[k]
        /\ areaIndices[j] # areaIndices[i]

\* C7: a tiling in which the occurrences of one ownership index are not
\* contiguous is rejected.
C7_NonContiguousRejected ==
    [][(call'.op = "purchaseAreaWithData" /\ NonContiguous(call'.areaIndices))
          => call'.line # 0]_vars

\* the step is a purchase that names an existing record for each piece (all
\* of them priced above 0) and sends exactly the total price
PaysExactly ==
    /\ call'.op = "purchaseAreaWithData"
    /\ Attributed(call')
    /\ \A i \in PieceNumbers(call') : tokenIdToAuction[call'.areaIndices[i]] # U(0)
    /\ call'.value = TotalPrice(call')

\* the smallest total price on which the fee of 1 % is not 0
SmallestPriceWithFee == U((1000 * 100) \div FEE_IN_THOUSANDS_OF_PERCENT)

\* C8 as stated: with the fee of 1 %, a purchase that sends exactly the total
\* price fails, whatever positive prices the sellers ask.
C8_ExactPaymentFails ==
    [][PaysExactly => call'.line # 0]_vars

\* C8 amended: a purchase that sends exactly the total price fails when the
\* total price is 100 wei or more, and the require on the fee (line 331)
\* rejects no such purchase of a lower total price, whose fee rounds to 0.
C8_ExactPaymentFailsFrom100Wei ==
    [][PaysExactly =>
        /\ Le(SmallestPriceWithFee, TotalPrice(call')) => call'.line # 0
        /\ call'.line = 331 => Le(SmallestPriceWithFee, TotalPrice(call'))]_vars

\* a purchase that sent exactly the total price has been rejected for its fee
C8_RejectedForTheFee ==
    /\ call.op = "purchaseAreaWithData" /\ call.line = 331
    /\ Attributed(call)
    /\ call.value = TotalPrice(call)

\* C9: a purchase that sends less than the total price of its pieces fails,
\* and no seller keeps a payment from it.
C9_UnderpaidPurchaseFails ==
    [][(call'.op = "purchaseAreaWithData" /\ Attributed(call')
           /\ Lt(call'.value, TotalPrice(call')))
          => call'.line # 0 /\ chain' = chain]_vars

\* an underpaid purchase has been rejected at the subtraction of line 206
\* after the loop had paid the seller of an earlier run
C9_UnderpaidAfterPayout ==
    /\ call.op = "purchaseAreaWithData" /\ call.line = 206
    /\ Attributed(call)
    /\ Lt(call.value, TotalPrice(call))
    /\ SomeSellerPaid

\* C10: while the price of a record is 0, every purchase that attributes a
\* piece to it is rejected, and the price of a record leaves 0 only by its
\* owner's updateAuction.
C10_NotForSaleAtPrice0 ==
    [][/\ (/\ call'.op = "purchaseAreaWithData"
           /\ \E i \in 1 .. Len(call'.areaIndices) :
                 /\ call'.areaIndices[i] < ownershipLength
                 /\ tokenIdToAuction[call'.areaIndices[i]] = U(0))
          => call'.line # 0 /\ chain' = chain
       /\ \A r \in 0 .. (ownershipLength - 1) :
             (tokenIdToAuction[r] = U(0) /\ tokenIdToAuction'[r] # U(0))
                => /\ call'.op = "updateAuction" /\ call'.line = 0
                   /\ call'.zoneIndex = r
                   /\ call'.sender = Zone(r).owner]_vars

\* a purchase has been rejected for a piece of a bought record whose price is 0
C10_RejectedAtPrice0 ==
    /\ call.op = "purchaseAreaWithData" /\ call.line = 341
    /\ \E i \in 1 .. Len(call.areaIndices) :
          /\ call.areaIndices[i] \in 1 .. (ownershipLength - 1)
          /\ tokenIdToAuction[call.areaIndices[i]] = U(0)

----------------------------------------------------------------------------
(* Properties of the ledger                                                *)

\* the last event of the reported call
LastLog(c) == c.logs[Len(c.logs)]

\* C11: after a successful purchase the number of records has grown by exactly
\* one, the new record's id is the number of records before the call and is
\* the id announced by PlotPurchased, and reading that record back gives the
\* submitted target rectangle with the buyer as owner, the submitted metadata,
\* the submitted initial price and an empty hole list.
C11_PurchaseRoundTrip ==
    [][PurchaseSucceeds =>
          /\ Len(ownership') = ownershipLength + 1
          /\ LastLog(call').event = "PlotPurchased"
          /\ LastLog(call').newZoneId = ownershipLength
          /\ LastLog(call').buyer = call'.sender
          /\ ownership'[ownershipLength + 1] =
                [x |-> call'.purchase[1], y |-> call'.purchase[2],
                 w |-> call'.purchase[3], h |-> call'.purchase[4], owner |-> call'.sender]
          /\ data'[ownershipLength] = [ipfsHash |-> call'.ipfsHash, url |-> call'.url]
          /\ tokenIdToAuction'[ownershipLength] = call'.initialBuyoutPriceInWeiPerPixel
          /\ holes'[ownershipLength] = <<>>]_vars

\* a second purchase has succeeded, made of several pieces and with a price
\* set for the new record
C11_BoughtWithAPrice ==
    /\ call.op = "purchaseAreaWithData" /\ call.line = 0
    /\ ownershipLength = 3
    /\ Len(call.areaIndices) > 1
    /\ call.initialBuyoutPriceInWeiPerPixel # U(0)
    /\ Zone(2).owner = call.sender

\* the ownership indices a purchase refers to
Referenced(c) == {c.areaIndices[i] : i \in 1 .. Len(c.areaIndices)}

\* C12: after a successful purchase the new id is appended exactly once to the
\* hole list of every distinct ownership index the purchase refers to, also
\* when several pieces refer to that index, and to no other record's list.
C12_OneHolePerOwner ==
    [][PurchaseSucceeds =>
          \A r \in 0 .. (ownershipLength - 1) :
             holes'[r] = IF r \in Referenced(call')
                         THEN Append(holes[r], ownershipLength)
                         ELSE holes[r]]_vars

\* two stored records share a region of positive area (exact arithmetic)
RecordsOverlap(a, b) ==
    /\ a.w > 0 /\ a.h > 0 /\ b.w > 0 /\ b.h > 0
    /\ a.x < b.x + b.w /\ b.x < a.x + a.w
    /\ a.y < b.y + b.h /\ b.y < a.y + a.h

\* C13: in every reachable state every entry h of the hole list of a record r
\* is the id of an existing record, is greater than r, and the rectangle of
\* record h shares positive area with the rectangle of record r.
C13_HolesAreLaterOverlappingRecords ==
    \A r \in RecordIds :
       \A k \in 1 .. Len(holes[r]) :
          /\ r < ownershipLength
          /\ holes[r][k] < ownershipLength
          /\ holes[r][k] > r
          /\ RecordsOverlap(Zone(holes[r][k]), Zone(r))

\* a bought record has a hole of its own, and so has the initial record
C13_HoleInABoughtRecord ==
    /\ holes[1] # <<>>
    /\ holes[0] # <<>>

\* a rectangle of positive width and height that lies inside the grid
InsideTheGrid(x, y, w, h) ==
    /\ w > 0 /\ h > 0
    /\ x + w <= GRID_WIDTH
    /\ y + h <= GRID_HEIGHT

\* C14: in every reachable state every record has a positive width and
\* height and lies inside the grid (x + w <= GRID_WIDTH, y + h <=
\* GRID_HEIGHT); a purchase whose target has no width or no height or reaches
\* past the grid is rejected by the requires on the target and changes nothing.
C14_RecordsInsideTheGrid ==
    /\ [](\A i \in 1 .. Len(ownership) :
             InsideTheGrid(ownership[i].x, ownership[i].y, ownership[i].w, ownership[i].h))
    /\ [][(/\ call'.op = "purchaseAreaWithData"
            /\ Len(call'.purchase) = 4
            /\ ~InsideTheGrid(call'.purchase[1], call'.purchase[2],
                              call'.purchase[3], call'.purchase[4]))
              => call'.line \in {283, 284, 285, 286} /\ chain' = chain]_vars

\* a target that starts inside the grid and reaches past its right edge has
\* been rejected, in a state that holds bought records
C14_RejectedPastTheEdge ==
    /\ call.op = "purchaseAreaWithData" /\ call.line = 285
    /\ call.purchase = <<249, 0, 2, 1>>
    /\ ownershipLength > 1

\* the sequence s is the beginning of the sequence t
IsPrefix(s, t) == Len(s) <= Len(t) /\ SubSeq(t, 1, Len(s)) = s

\* C15: the number of records never decreases and grows only by a successful
\* purchase, by one; the rectangle, the owner and the metadata of an existing
\* record never change; a hole list changes only by entries appended at its end.
C15_AppendOnlyLedger ==
    [][/\ Len(ownership') >= ownershipLength
       /\ Len(ownership') # ownershipLength
             => PurchaseSucceeds /\ Len(ownership') = ownershipLength + 1
       /\ PurchaseSucceeds => Len(ownership') = ownershipLength + 1
       /\ \A r \in 0 .. (ownershipLength - 1) :
             /\ ownership'[r + 1] = Zone(r)
             /\ data'[r] = data[r]
             /\ IsPrefix(holes[r], holes'[r])]_vars

\* a record that already had a hole has got another one behind it
C15_SecondHoleAppended ==
    /\ call.op = "purchaseAreaWithData" /\ call.line = 0
    /\ ownershipLength = 3
    /\ holes[0] = <<1, 2>>

----------------------------------------------------------------------------
(* Properties of updateAuction and withdraw                                *)

\* C16: updateAuction fails, changing no price and emitting no event, when
\* the record id does not exist or the caller is not the record's owner; when
\* the caller is the owner it succeeds, stores the price as the record's
\* price and emits AuctionUpdated(recordId, price, caller).
C16_UpdateAuctionByOwnerOnly ==
    [][call'.op = "updateAuction" =>
          IF /\ call'.zoneIndex \in 0 .. (ownershipLength - 1)
             /\ call'.sender = Zone(call'.zoneIndex).owner
          THEN /\ call'.line = 0
               /\ tokenIdToAuction'[call'.zoneIndex] = call'.newPriceInWeiPerPixel
               /\ call'.logs = <<[event |-> "AuctionUpdated", tokenId |-> call'.zoneIndex,
                                  newPriceInWeiPerPixel |-> call'.newPriceInWeiPerPixel,
                                  owner |-> call'.sender]>>
          ELSE /\ call'.line # 0
               /\ tokenIdToAuction' = tokenIdToAuction
               /\ call'.logs = <<>>]_vars

\* the deployer has been refused the update of the price of a bought record
C16_DeployerRefused ==
    /\ call.op = "updateAuction" /\ call.line = 133
    /\ call.sender = owner
    /\ call.zoneIndex >= 1

\* C17: the price of an existing record r changes only by a successful
\* updateAuction on r called by r's owner; a successful updateAuction leaves
\* every other record's price, the records, the hole lists, the metadata and
\* the balances unchanged; a purchase never changes the price of a record
\* that existed before it.
C17_PriceAuthorityAndFrame ==
    [][/\ \A r \in 0 .. (ownershipLength - 1) :
             tokenIdToAuction'[r] # tokenIdToAuction[r]
                => /\ call'.op = "updateAuction" /\ call'.line = 0
                   /\ call'.zoneIndex = r
                   /\ call'.sender = Zone(r).owner
       /\ (call'.op = "updateAuction" /\ call'.line = 0)
             => /\ \A r \in RecordIds \ {call'.zoneIndex} :
                      tokenIdToAuction'[r] = tokenIdToAuction[r]
                /\ UNCHANGED <<ownership, holes, data, balance>>
       /\ call'.op = "purchaseAreaWithData"
             => \A r \in 0 .. (ownershipLength - 1) :
                   tokenIdToAuction'[r] = tokenIdToAuction[r]]_vars

\* the owner of a bought record has set its price, among three records with
\* three different prices
C17_PriceSetAmongThree ==
    /\ call.op = "updateAuction" /\ call.line = 0
    /\ call.zoneIndex = 1
    /\ ownershipLength = 3
    /\ tokenIdToAuction[1] = U(50)
    /\ tokenIdToAuction[2] = U(0)

\* C18: withdraw succeeds only if the caller is the owner of the contract and
\* the destination is that same account; on success the whole balance of the
\* contract goes to the owner and the contract's balance becomes zero;
\* otherwise it fails and no balance changes.  It never changes the records,
\* the hole lists, the prices or the metadata.
C18_WithdrawByOwnerToOwner ==
    [][call'.op = "withdraw" =>
          /\ UNCHANGED <<ownership, holes, tokenIdToAuction, data>>
          /\ IF call'.line = 0
             THEN /\ call'.sender = owner
                  /\ call'.transferTo = owner
                  /\ balance'[owner] = Plus(balance[owner], balance[this])
                  /\ balance'[this] = U(0)
                  /\ \A acct \in Accounts \ {owner} : balance'[acct] = balance[acct]
             ELSE balance' = balance
          /\ (call'.sender # owner \/ call'.transferTo # owner) => call'.line # 0]_vars

\* the owner has withdrawn fees: the contract held wei before the call
C18_FeesWithdrawn ==
    /\ call.op = "withdraw" /\ call.line = 0
    /\ call.currentBalance # U(0)
    /\ balance[this] = U(0)

----------------------------------------------------------------------------
(* Properties of the area limit                                            *)

\* the step is a purchase whose target lies inside the grid
TargetInsideTheGrid ==
    /\ call'.op = "purchaseAreaWithData"
    /\ Len(call'.purchase) = 4
    /\ InsideTheGrid(call'.purchase[1], call'.purchase[2], call'.purchase[3], call'.purchase[4])

\* the area of the target of the purchase, and the purchase passing the
\* requires of lines 279-287 on its target
TargetArea == call'.purchase[3] * call'.purchase[4]
TargetAdmitted == call'.line \notin {279, 283, 284, 285, 286, 287}

C20_AreaLimitInclusive ==
    [][TargetInsideTheGrid =>
          (TargetAdmitted <=> TargetArea <= MAXIMUM_PURCHASE_AREA)]_vars

----------------------------------------------------------------------------
(* The scenario of the first purchases                                     *)

\* the step is a purchase of the target p in one piece attributed to record
\* r, with the price of the piece plus the fee as payment
BuysInOnePiece(p, r) ==
    /\ call'.op = "purchaseAreaWithData"
    /\ call'.purchase = p
    /\ call'.purchasedAreas = <<U(p[1]), U(p[2]), U(p[3]), U(p[4])>>
    /\ call'.areaIndices = <<r>>
    /\ call'.value = Plus(Times(U(p[3] * p[4]), tokenIdToAuction[r]),
                          FeeOn(Times(U(p[3] * p[4]), tokenIdToAuction[r])))

\* the ledger holds the record of the whole grid only, at the price `price`
OnlyTheGrid(price) ==
    /\ ownership = <<[x |-> 0, y |-> 0, w |-> 250, h |-> 250, owner |-> owner]>>
    /\ holes[0] = <<>>
    /\ tokenIdToAuction[0] = price

\* C21 as stated, the amounts read as the numbers the contract stores and
\* reports: the ledger starts with the record {0,0,250,250} of the admin
\* alone, without holes, at a price of 20000 per pixel; the purchase of
\* {10,10,5,5} in one piece from record 0 then succeeds with a total price of
\* 25 * 20000 = 500000 and leaves [1] as the hole list of record 0.
C21_FirstPurchaseFor500000 ==
    /\ OnlyTheGrid(U(20000))
    /\ [][(ownershipLength = 1 /\ holes[0] = <<>> /\ BuysInOnePiece(<<10, 10, 5, 5>>, 0)
             /\ tokenIdToAuction[0] # U(0))
              => /\ call'.line = 0
                 /\ LastLog(call').totalPrice = U(500000)
                 /\ holes'[0] = <<1>>]_vars

\* C21 with the amounts in wei: the initial price is 20000 gwei, that is
\* 20000 * 10^9 wei per pixel, and the purchase of {10,10,5,5} in one piece
\* from record 0 at that price succeeds with a total price of
\* 25 * 20000 * 10^9 wei and leaves [1] as the hole list of record 0.
C21_FirstPurchaseFor500000Gwei ==
    /\ OnlyTheGrid(Times(U(20000), U(1000000000)))
    /\ [][(OnlyTheGrid(Times(U(20000), U(1000000000)))
             /\ BuysInOnePiece(<<10, 10, 5, 5>>, 0))
              => /\ call'.line = 0
                 /\ LastLog(call').totalPrice = Times(U(500000), U(1000000000))
                 /\ LastLog(call').newZoneId = 1
                 /\ holes'[0] = <<1>>]_vars

\* the plot {10,10,5,5} has been bought from the grid at the initial price
C21_BoughtThePlot ==
    /\ call.op = "purchaseAreaWithData" /\ call.line = 0
    /\ call.purchase = <<10, 10, 5, 5>>
    /\ holes[0] = <<1>>
    /\ LastLog(call).totalPrice = Times(U(500000), U(1000000000))

\* the plot {10,10,5,5} is record 1 and a hole of record 0
PlotIsAHoleOfTheGrid ==
    /\ ownershipLength >= 2
    /\ [x |-> Zone(1).x, y |-> Zone(1).y, w |-> Zone(1).w, h |-> Zone(1).h]
          = [x |-> 10, y |-> 10, w |-> 5, h |-> 5]
    /\ \E k \in 1 .. Len(holes[0]) : holes[0][k] = 1

\* C22 as stated: after {10,10,5,5} was bought from record 0, which made
\* record 1 a hole of record 0, the purchase of {11,11,2,2} in one piece
\* attributed to record 0, with sufficient payment, succeeds.
C22_InsideTheHoleSucceeds ==
    [][(PlotIsAHoleOfTheGrid /\ tokenIdToAuction[0] # U(0)
          /\ BuysInOnePiece(<<11, 11, 2, 2>>, 0))
          => call'.line = 0]_vars

\* C22 amended: after {10,10,5,5} was bought from record 0, the purchase of
\* {11,11,2,2} in one piece attributed to record 0 is rejected by the hole
\* check whatever the payment, for the target lies inside record 1, a hole
\* of record 0, and changes nothing; attributed to record 1 it succeeds when
\* record 1 has a price and no hole and its owner can be paid.
C22_InsideTheHoleIsRejected ==
    [][PlotIsAHoleOfTheGrid =>
          /\ (/\ call'.op = "purchaseAreaWithData"
              /\ call'.purchase = <<11, 11, 2, 2>>
              /\ call'.purchasedAreas = <<U(11), U(11), U(2), U(2)>>
              /\ call'.areaIndices = <<0>>)
                => call'.line = 200 /\ chain' = chain
          /\ (/\ BuysInOnePiece(<<11, 11, 2, 2>>, 1)
              /\ tokenIdToAuction[1] # U(0)
              /\ holes[1] = <<>>
              /\ Zone(1).owner \notin NonPayable)
                => call'.line = 0 /\ holes'[1] = <<2>> /\ holes'[0] = holes[0]]_vars

\* {11,11,2,2} has been rejected as bought from record 0 with the price and
\* the fee paid, after {10,10,5,5} was bought from it
C22_RejectedInsideTheHole ==
    /\ call.op = "purchaseAreaWithData" /\ call.line = 200
    /\ call.purchase = <<11, 11, 2, 2>>
    /\ call.areaIndices = <<0>>
    /\ PlotIsAHoleOfTheGrid
    /\ tokenIdToAuction[0] # U(0)
    /\ call.value = Plus(Times(U(4), tokenIdToAuction[0]), FeeOn(Times(U(4), tokenIdToAuction[0])))

\* the piece rect shares positive area with the stored record z (exact
\* arithmetic on the piece's uint256 fields)
PieceOverlapsRecord(rect, z) ==
    /\ Lt(U(0), rect.w) /\ Lt(U(0), rect.h)
    /\ Lt(rect.x, U(z.x + z.w)) /\ Lt(U(z.x), Plus(rect.x, rect.w))
    /\ Lt(rect.y, U(z.y + z.h)) /\ Lt(U(z.y), Plus(rect.y, rect.h))

\* the piece rect overlaps the rectangle of some hole of record r
OverlapsAHole(rect, r) ==
    \E k \in 1 .. Len(holes[r]) : PieceOverlapsRecord(rect, Zone(holes[r][k]))

\* the pieces whose rejection is followed from state to state
FollowedPieces ==
    {PieceChoices[k] : k \in 1 .. 3} \cup {TargetRect(p) : p \in PlotPurchases}

\* C23: a purchase with a piece that overlaps the rectangle of a hole of the
\* record the piece is attributed to is rejected, whatever the payment, and
\* changes nothing; a piece that overlaps a hole of a record overlaps one in
\* every later state; in particular, once {10,10,5,5} was bought from record
\* 0, every purchase of {10,10,1,1} attributed to record 0 fails at the hole
\* check.
C23_RejectionPersists ==
    [][/\ (/\ call'.op = "purchaseAreaWithData"
            /\ \E i \in PieceNumbers(call') :
                  /\ i <= Len(PiecesOf(call'))
                  /\ call'.areaIndices[i] < ownershipLength
                  /\ OverlapsAHole(PiecesOf(call')[i], call'.areaIndices[i]))
             => call'.line # 0 /\ chain' = chain
       /\ <<ownership, holes>>' # <<ownership, holes>>
             => \A r \in 0 .. (ownershipLength - 1) :
                   \A rect \in FollowedPieces :
                      OverlapsAHole(rect, r) => OverlapsAHole(rect, r)'
       /\ PlotIsAHoleOfTheGrid
             => /\ PlotIsAHoleOfTheGrid'
                /\ (/\ call'.op = "purchaseAreaWithData"
                    /\ call'.purchase = <<10, 10, 1, 1>>
                    /\ call'.areaIndices = <<0>>)
                      => call'.line = 200]_vars

\* {10,10,1,1} has been rejected as bought from record 0 with the price and
\* the fee paid, after {10,10,5,5} was bought from it and the price of record
\* 0 was changed
C23_StillRejectedLater ==
    /\ call.op = "purchaseAreaWithData" /\ call.line = 200
    /\ call.purchase = <<10, 10, 1, 1>>
    /\ call.areaIndices = <<0>>
    /\ PlotIsAHoleOfTheGrid
    /\ tokenIdToAuction[0] # INITIAL_AUCTION_PRICE
    /\ tokenIdToAuction[0] # U(0)
    /\ call.value = Plus(tokenIdToAuction[0], FeeOn(tokenIdToAuction[0]))

----------------------------------------------------------------------------
(* Properties of the order of validation and payment                       *)

\* C24 as stated: within one purchase no seller is paid before every piece
\* of the tiling has passed the containment check and the hole check: no
\* payment step precedes the check of a later piece.
C24_PaymentsAfterAllChecks ==
    [][call'.op = "purchaseAreaWithData" =>
          \A k, m \in 1 .. Len(call'.steps) :
             (call'.steps[k].step = "paid" /\ call'.steps[m].step = "checked") => m < k]_vars

\* C24 amended: a seller is paid when the pieces up to the end of their run
\* have passed the containment and hole checks, which may be before the
\* pieces of later runs are checked; when a later piece fails, the call
\* reverts: every balance is as before the call and no notification is left;
\* a purchase succeeds only if every piece has passed the checks.
C24_PaymentsUndoneByLaterFailure ==
    [][call'.op = "purchaseAreaWithData" =>
          /\ \A k \in 1 .. Len(call'.steps) :
                call'.steps[k].step = "paid"
                   => \A i \in 1 .. call'.steps[k].piece :
                         \E m \in 1 .. (k - 1) :
                            call'.steps[m] = [step |-> "checked", piece |-> i]
          /\ call'.line # 0 => balance' = balance /\ call'.logs = <<>>
          /\ call'.line = 0
                => \A i \in PieceNumbers(call') :
                      \E m \in 1 .. Len(call'.steps) :
                         call'.steps[m] = [step |-> "checked", piece |-> i]]_vars

\* a seller was paid and a piece of a later run has then failed the hole check
C24_PaidThenFailedTheHoleCheck ==
    /\ call.op = "purchaseAreaWithData" /\ call.line = 200
    /\ SomeSellerPaid
    /\ call.steps[Len(call.steps)].step = "paid"

----------------------------------------------------------------------------
(* Properties of the failures reported                                     *)

\* the error kind that the precondition checked on a line stands for
ErrorKind(line) ==
    CASE line \in {279, 283, 284, 285, 286, 287, 289, 290, 291, 292} -> "BoundsError"
      [] line \in {309, 310, 311, 312, 315} -> "IncompleteTiling"
      [] line = 320 -> "OverlappingPieces"
      [] line \in {182, 186, 187, 188, 189} -> "OwnershipMismatch"
      [] line = 200 -> "HoleConflict"
      [] line = 341 -> "NotForSale"
      [] line = 206 -> "InsufficientPayment"
      [] line = 331 -> "InsufficientFee"
      [] line = 133 -> "NotOwner"
      [] line \in {131, 132, 178} -> "UnknownRecord"
      [] OTHER -> "OverflowError"

\* the lines a purchase or a price update fails on
FailingLines ==
    {131, 132, 133, 178, 182, 186, 187, 188, 189, 200, 206, 207, 212, 279, 283, 284, 285,
     286, 287, 289, 290, 291, 292, 306, 309, 310, 311, 312, 315, 320, 327, 330, 331, 341, 343}

\* C25: every failed purchase or price update reports the error kind of the
\* first violated precondition, so that a failure of another kind yields a
\* different outcome.
C25_FailuresTellTheirKind ==
    [][(call'.op \in {"purchaseAreaWithData", "updateAuction"} /\ call'.line # 0)
          => /\ Thrown(call'.line) = ErrorKind(call'.line)
             /\ \A l \in FailingLines :
                   ErrorKind(l) # ErrorKind(call'.line) => Thrown(l) # Thrown(call'.line)]_vars

----------------------------------------------------------------------------
(* Properties of the arithmetic                                            *)

\* the sum a + b does not fit in a uint256
Overflows(a, b) == ~Lt(Plus(a, b), TwoTo256)

\* C26: overflow is detected, never wrapped: no purchase is accepted with a
\* piece whose right edge x + w or bottom edge y + h, whose area w * h or
\* whose price area * price exceeds 2^256 - 1.
C26_NoWrappedEdgeAccepted ==
    [][PurchaseSucceeds =>
          \A i \in PieceNumbers(call') :
             /\ ~Overflows(PiecesOf(call')[i].x, PiecesOf(call')[i].w)
             /\ ~Overflows(PiecesOf(call')[i].y, PiecesOf(call')[i].h)
             /\ Lt(Times(PiecesOf(call')[i].w, PiecesOf(call')[i].h), TwoTo256)
             /\ Lt(Times(Times(PiecesOf(call')[i].w, PiecesOf(call')[i].h),
                         tokenIdToAuction[call'.areaIndices[i]]), TwoTo256)]_vars

----------------------------------------------------------------------------
(* Properties of the ownership of the cells                                *)

\* cells of the grid: those of the strip and next to it, those of the plot
\* {10,10,5,5} and around it, the corner of the largest target, and one cell
\* that no purchase reaches
SampleCells ==
    {<<0, 0>>, <<1, 0>>, <<2, 0>>, <<3, 0>>, <<0, 1>>, <<10, 10>>, <<11, 11>>, <<12, 12>>,
     <<13, 13>>, <<14, 14>>, <<15, 15>>, <<36, 26>>, <<37, 27>>, <<200, 200>>}

\* the cell lies in the rectangle of the stored record z
InRecord(cell, z) ==
    /\ z.x <= cell[1] /\ cell[1] < z.x + z.w
    /\ z.y <= cell[2] /\ cell[2] < z.y + z.h

\* the cell lies in the sellable area of record r: in its rectangle and in
\* the rectangle of none of its holes
Sellable(cell, r) ==
    /\ InRecord(cell, Zone(r))
    /\ \A k \in 1 .. Len(holes[r]) : ~InRecord(cell, Zone(holes[r][k]))

\* the most recently created record whose rectangle contains the cell
LatestCovering(cell) ==
    CHOOSE r \in 0 .. (ownershipLength - 1) :
        /\ InRecord(cell, Zone(r))
        /\ \A q \in (r + 1) .. (ownershipLength - 1) : ~InRecord(cell, Zone(q))

\* C27: in every reachable state every cell lies in the sellable area of
\* exactly one record, the most recently created record whose rectangle
\* contains the cell; and every cell of a successful purchase lies in a
\* piece attributed to the cell's latest covering record, whose owner is paid
\* at that record's price.
C27_ExclusiveOwnership ==
    /\ [](\A cell \in SampleCells :
             {r \in 0 .. (ownershipLength - 1) : Sellable(cell, r)} = {LatestCovering(cell)})
    /\ [][PurchaseSucceeds =>
             \A cell \in SampleCells :
                InRecord(cell, [x |-> call'.purchase[1], y |-> call'.purchase[2],
                                w |-> call'.purchase[3], h |-> call'.purchase[4]])
                   => \E i \in PieceNumbers(call') :
                         /\ Covers(PiecesOf(call')[i], cell[1], cell[2])
                         /\ call'.areaIndices[i] = LatestCovering(cell)]_vars

----------------------------------------------------------------------------
(* Properties of the funds                                                 *)

RECURSIVE SumSold(_, _)
\* the sum of the amounts of the PlotSectionSold events of logs from k on
SumSold(logs, k) ==
    IF k > Len(logs) THEN U(0)
    ELSE Plus(IF logs[k].event = "PlotSectionSold" THEN logs[k].totalPrice ELSE U(0),
              SumSold(logs, k + 1))

\* the wei held by the accounts and the contract together
AllFunds(bal) == Plus(Plus(bal["admin"], bal["alice"]), Plus(bal["vault"], bal[this]))

\* C28: in a successful purchase the payment equals the seller payouts,
\* which sum to totalPrice, plus the residual the contract keeps; the
\* residual is at least floor(totalPrice * 1000 / 100000) and is what the
\* contract's balance grows by; a successful withdraw empties the contract;
\* every other step leaves its balance as it was, so that the balance is the
\* residuals gathered since the last withdraw and only a withdraw lowers it;
\* no step creates or destroys wei.
C28_FundsConserved ==
    [][/\ PurchaseSucceeds =>
             /\ SumSold(call'.logs, 1) = LastLog(call').totalPrice
             /\ Le(LastLog(call').totalPrice, call'.value)
             /\ Le(DivNat(Times(LastLog(call').totalPrice, U(1000)), 100000),
                   Minus(call'.value, LastLog(call').totalPrice))
             /\ balance'[this] =
                   Plus(balance[this], Minus(call'.value, LastLog(call').totalPrice))
       /\ (call'.op = "withdraw" /\ call'.line = 0) => balance'[this] = U(0)
       /\ ~PurchaseSucceeds /\ ~(call'.op = "withdraw" /\ call'.line = 0)
             => balance'[this] = balance[this]
       /\ Lt(balance'[this], balance[this]) => call'.op = "withdraw" /\ call'.line = 0
       /\ AllFunds(balance') = AllFunds(balance)]_vars

\* a purchase has added its residual to the residuals the contract held
C28_ResidualsGathered ==
    /\ call.op = "purchaseAreaWithData" /\ call.line = 0
    /\ Lt(Minus(call.value, LastLog(call).totalPrice), balance[this])
    /\ Lt(U(0), Minus(call.value, LastLog(call).totalPrice))

----------------------------------------------------------------------------
(* Properties of conflicting purchases                                     *)

\* the rectangle a purchase array of four values stands for
AsRecord(p) == [x |-> p[1], y |-> p[2], w |-> p[3], h |-> p[4]]

\* the line the purchase b fails on in the current state, 0 if it succeeds
FailsOn(b) ==
    validatePurchases(b.sender, b.value, b.purchase, b.purchasedAreas, b.areaIndices).line

\* purchases in one piece that may be valid in the current state and whose
\* target shares a cell with `target`: the targets, each as its own piece,
\* every attribution to an existing record, and the quoted price plus
\* the fee as payment
OnePiece(p, rect) ==
    {Arguments("alice", Plus(Quote(<<rect>>, <<r>>, 1), FeeOn(Quote(<<rect>>, <<r>>, 1))),
               p, <<rect.x, rect.y, rect.w, rect.h>>, <<r>>, U(0)) :
        r \in 0 .. (ownershipLength - 1)}
Rivals(target) ==
    UNION {OnePiece(p, TargetRect(p)) :
             p \in {t \in ValidPurchases \cup PlotPurchases \cup {LargestPurchase} :
                       RecordsOverlap(AsRecord(t), target)}}

\* C29: when a purchase has succeeded, every purchase in one piece that was
\* valid in the state before it and whose target shares a cell with its target is
\* rejected in the state after it, submitted with its tiling and attribution
\* unchanged: one of its pieces then fails the hole check of lines 192-201,
\* whatever the payment.
C29_SecondOfTwoConflictingFails ==
    [][(PurchaseSucceeds /\ call'.sender = "alice"
          /\ call'.initialBuyoutPriceInWeiPerPixel = U(0)) =>
          \A b \in Rivals(AsRecord(call'.purchase)) :
             FailsOn(b) = 0
                => \E i \in 1 .. Len(b.areaIndices) :
                      SomeHoleOverlaps(PieceRects(b.purchasedAreas)[i], b.areaIndices[i])']_vars

\* C30: a purchase that succeeds has only pieces of positive width and
\* positive height, and each of its PlotSectionSold events carries a
\* totalPrice greater than zero; hence a tiling with a zero-width or
\* zero-height piece is rejected.
C30_NoZeroSizePieces ==
    [][PurchaseSucceeds =>
          /\ \A i \in 1 .. Len(call'.areaIndices) :
                /\ Lt(U(0), PieceRects(call'.purchasedAreas)[i].w)
                /\ Lt(U(0), PieceRects(call'.purchasedAreas)[i].h)
          /\ \A k \in 1 .. Len(call'.logs) :
                call'.logs[k].event = "PlotSectionSold"
                   => Lt(U(0), call'.logs[k].totalPrice)]_vars

----------------------------------------------------------------------------
(* The web client: the purchasePlot thunk of DataActions.ts and the        *)
(* transaction list of AccountActions (index.js, lines 17-185).  The store *)
(* is the sequence of the actions dispatched to it.  A thunk runs to its   *)
(* next await in one step; an awaited promise settles in a later step, by  *)
(* resolving or by rejecting.                                              *)

\* the purchasePlot thunks started, and the watch callbacks delivered, in a run
MaxRuns == 1
MaxWatched == 1

\* the active account of the client
currentAddress == "alice"

\* the action creators
changePurchaseStep(purchaseStage) ==
    [type |-> "CHANGE_PURCHASE_STEP", purchaseStage |-> purchaseStage]
togglePurchaseFlow == [type |-> "TOGGLE_PURCHASE_FLOW"]
resetPurchaseFlow == [type |-> "RESET_PURCHASE_FLOW"]
addPurchaseEventTransactions(purchaseTransactions) ==
    [type |-> "ADD_PURCHASE_TRANSACTIONS", purchaseTransactions |-> purchaseTransactions]
addTransaction(txHash, txType, txStatus, blockNumber, isNew) ==
    [type |-> "ADD_TRANSACTION", txHash |-> txHash, txType |-> txType,
     txStatus |-> txStatus, blockNumber |-> blockNumber, isNew |-> isNew]
loadTransactions == [type |-> "LOAD_TRANSACTIONS"]
doneLoadingTransactions == [type |-> "LOAD_TRANSACTIONS_DONE"]

\* the hash that tx.send resolves with in the run-th purchase
TransactionReceipt(run) == <<"0xtx", run>>

\* the transaction the thunk records once it is sent (lines 198-201): a
\* purchase, pending, not yet in a block, newly created
AddSentTransaction(transactionReceipt) ==
    [type |-> "ADD_TRANSACTION", uniqueEventHash |-> <<"PURCHASE", transactionReceipt>>,
     txHash |-> transactionReceipt, txType |-> "PURCHASE", txStatus |-> "PENDING",
     blockNumber |-> "MAX_SAFE_INTEGER", isNew |-> TRUE]

\* the thunk is not running
Finished == {"idle", "returned", "threw", "rejected"}

\* purchasePlot up to its first await (lines 166-175): isValid is what
\* computePurchaseInfo says of the rectangle and the plots
purchasePlot(isValid) ==
    /\ purchaseRun.pc \in Finished
    /\ purchaseRun.run < MaxRuns
    /\ IF ~isValid
       THEN /\ purchaseRun' = [pc |-> "threw", run |-> purchaseRun.run + 1,
                               result |-> "Error"]
            /\ UNCHANGED dispatched
       ELSE /\ dispatched' = Append(dispatched, changePurchaseStep("WAITING_FOR_UNLOCK"))
            /\ purchaseRun' = [pc |-> "initializeContract", run |-> purchaseRun.run + 1,
                               result |-> "none"]
    /\ UNCHANGED <<fetchRun, watched>>

PurchasePlot ==
    /\ \E isValid \in BOOLEAN : purchasePlot(isValid)
    /\ UNCHANGED <<chain, call>>

\* await initializeContract(contractInfo) of line 175 settles; a rejection
\* outside the try of line 195 rejects the promise of the thunk
AwaitInitializeContract ==
    /\ purchaseRun.pc = "initializeContract"
    /\ \E resolved \in BOOLEAN :
          purchaseRun' = IF resolved THEN [purchaseRun EXCEPT !.pc = "estimateGas"]
                         ELSE [purchaseRun EXCEPT !.pc = "rejected", !.result = "Error"]
    /\ UNCHANGED <<dispatched, fetchRun, watched, chain, call>>

\* await tx.estimateGas(...) of line 184 settles
AwaitEstimateGas ==
    /\ purchaseRun.pc = "estimateGas"
    /\ \E resolved \in BOOLEAN :
          purchaseRun' = IF resolved THEN [purchaseRun EXCEPT !.pc = "send"]
                         ELSE [purchaseRun EXCEPT !.pc = "rejected", !.result = "Error"]
    /\ UNCHANGED <<dispatched, fetchRun, watched, chain, call>>

\* await tx.send(txObject) of line 196 settles: lines 198-205, or the catch
\* of lines 206-210
AwaitSend ==
    /\ purchaseRun.pc = "send"
    /\ \E resolved \in BOOLEAN :
          IF resolved
          THEN /\ dispatched' = dispatched \o
                     <<AddSentTransaction(TransactionReceipt(purchaseRun.run)),
                       togglePurchaseFlow, changePurchaseStep("USER_CONFIRM"),
                       resetPurchaseFlow>>
               /\ purchaseRun' = [purchaseRun EXCEPT !.pc = "returned",
                                     !.result = TransactionReceipt(purchaseRun.run)]
          ELSE /\ dispatched' = dispatched \o
                     <<togglePurchaseFlow, changePurchaseStep("ERROR")>>
               /\ purchaseRun' = [purchaseRun EXCEPT !.pc = "returned", !.result = ""]
    /\ UNCHANGED <<fetchRun, watched, chain, call>>

\* the events of the contract that the client may be handed
AuctionEvents ==
    {[transactionHash |-> "0xa1", blockNumber |-> 1, args |-> [newPurchase |-> FALSE]],
     [transactionHash |-> "0xa2", blockNumber |-> 2, args |-> [newPurchase |-> TRUE]]}
PurchaseEvents ==
    {[transactionHash |-> "0xa2", blockNumber |-> 2,
      args |-> [buyer |-> currentAddress, newZoneId |-> 1, totalPrice |-> "500"]],
     [transactionHash |-> "0xb3", blockNumber |-> 3,
      args |-> [buyer |-> "bob", newZoneId |-> 2, totalPrice |-> "100"]]}
SaleEvents ==
    {[transactionHash |-> "0xb3", blockNumber |-> 3, args |-> [zoneId |-> 1]]}
\* what event.get resolves with: no event, or one (forEach then calls the
\* handler for events[1] alone)
Histories(events) == {<<>>} \cup {<<e>> : e \in events}

\* determineTxStatus is called with the transaction alone and is not awaited:
\* the status handed on is the promise
determineTxStatus(tx) == "Promise"

\* what the handlers dispatch for one transaction
genericTransactionHandler(tx, isNew, txType) ==
    <<addTransaction(tx.transactionHash, txType, determineTxStatus(tx), tx.blockNumber, FALSE)>>
auctionTransactionHandler(tx, isNew, txType) ==
    IF ~tx.args.newPurchase THEN genericTransactionHandler(tx, isNew, txType) ELSE <<>>

\* fetchAccountTransactions up to its await (lines 89-92)
FetchAccountTransactions ==
    /\ fetchRun.pc = "idle"
    /\ dispatched' = Append(dispatched, loadTransactions)
    /\ fetchRun' = [fetchRun EXCEPT !.pc = "initializeContract"]
    /\ UNCHANGED <<purchaseRun, watched, chain, call>>

\* await initializeContract of line 92 settles; the three getters start and
\* run to their await of event.get (lines 94-98, 108, 127, 157)
FetchInitializeContract ==
    /\ fetchRun.pc = "initializeContract"
    /\ \E resolved \in BOOLEAN :
          fetchRun' = IF resolved
                      THEN [pc |-> "getting",
                            getters |-> [g \in {"auction", "purchase", "sale"} |-> "get"]]
                      ELSE [fetchRun EXCEPT !.pc = "rejected"]
    /\ UNCHANGED <<dispatched, purchaseRun, watched, chain, call>>

\* a getter after its event.get has settled: the history is handled and the
\* watcher installed, or the getter is rejected
GetterSettles(g, resolved, handled) ==
    /\ fetchRun.getters[g] = "get"
    /\ IF resolved
       THEN /\ dispatched' = dispatched \o handled
            /\ fetchRun' = [fetchRun EXCEPT !.getters[g] = "watching"]
       ELSE /\ fetchRun' = [fetchRun EXCEPT !.getters[g] = "rejected"]
            /\ UNCHANGED dispatched
    /\ UNCHANGED <<purchaseRun, watched, chain, call>>

\* lines 108-119
GetAuctionEvents ==
    \E resolved \in BOOLEAN, events \in Histories(AuctionEvents) :
       /\ (~resolved => events = <<>>)
       /\ GetterSettles("auction", resolved,
             IF events = <<>> THEN <<>>
             ELSE auctionTransactionHandler(events[1], FALSE, "AUCTION"))

\* lines 127-151
GetPurchaseEvents ==
    \E resolved \in BOOLEAN, events \in Histories(PurchaseEvents) :
       /\ (~resolved => events = <<>>)
       /\ GetterSettles("purchase", resolved,
             (IF events # <<>> /\ events[1].args.buyer = currentAddress
              THEN genericTransactionHandler(events[1], FALSE, "PURCHASE")
              ELSE <<>>)
                 \o <<addPurchaseEventTransactions(
                        [k \in 1 .. Len(events) |->
                           [purchaseIndex |-> events[k].args.newZoneId,
                            purchasePrice |-> events[k].args.totalPrice,
                            blockNumber   |-> events[k].blockNumber,
                            txHash        |-> events[k].transactionHash]])>>)

\* lines 157-168
GetSaleEvents ==
    \E resolved \in BOOLEAN, events \in Histories(SaleEvents) :
       /\ (~resolved => events = <<>>)
       /\ GetterSettles("sale", resolved,
             IF events = <<>> THEN <<>>
             ELSE genericTransactionHandler(events[1], FALSE, "AUCTION"))

\* await Promise.all of lines 94-98 settles: line 100, or the rejection of
\* the thunk when a getter was rejected
AwaitAllEvents ==
    /\ fetchRun.pc = "getting"
    /\ \/ /\ \A g \in DOMAIN fetchRun.getters : fetchRun.getters[g] = "watching"
          /\ dispatched' = Append(dispatched, doneLoadingTransactions)
          /\ fetchRun' = [fetchRun EXCEPT !.pc = "done"]
       \/ /\ \E g \in DOMAIN fetchRun.getters : fetchRun.getters[g] = "rejected"
          /\ fetchRun' = [fetchRun EXCEPT !.pc = "rejected"]
          /\ UNCHANGED dispatched
    /\ UNCHANGED <<purchaseRun, watched, chain, call>>

\* a watch callback is called with (err, event); handled is what its handler
\* dispatches for the event
Watch(err, handled) ==
    /\ watched < MaxWatched
    /\ watched' = watched + 1
    /\ dispatched' = IF ~err THEN dispatched \o handled ELSE dispatched
    /\ UNCHANGED <<purchaseRun, fetchRun, chain, call>>

\* lines 115-119
WatchAuction ==
    \E err \in BOOLEAN, event \in AuctionEvents :
       /\ fetchRun.getters["auction"] = "watching"
       /\ Watch(err, auctionTransactionHandler(event, TRUE, "AUCTION"))
\* lines 147-151
WatchPurchase ==
    \E err \in BOOLEAN, event \in PurchaseEvents :
       /\ fetchRun.getters["purchase"] = "watching"
       /\ Watch(err, genericTransactionHandler(event, TRUE, "PURCHASE"))
\* lines 164-168
WatchSale ==
    \E err \in BOOLEAN, event \in SaleEvents :
       /\ fetchRun.getters["sale"] = "watching"
       /\ Watch(err, genericTransactionHandler(event, TRUE, "SALE"))

ClientNext ==
    \/ PurchasePlot \/ AwaitInitializeContract \/ AwaitEstimateGas \/ AwaitSend
    \/ FetchAccountTransactions \/ FetchInitializeContract
    \/ GetAuctionEvents \/ GetPurchaseEvents \/ GetSaleEvents \/ AwaitAllEvents
    \/ WatchAuction \/ WatchPurchase \/ WatchSale

\* every awaited promise of the provider settles: the callbacks of web3 are
\* called with a result or with an error
ClientSpec ==
    /\ Init /\ [][ClientNext]_vars
    /\ WF_vars(AwaitInitializeContract) /\ WF_vars(AwaitEstimateGas) /\ WF_vars(AwaitSend)
    /\ WF_vars(FetchInitializeContract) /\ WF_vars(GetAuctionEvents)
    /\ WF_vars(GetPurchaseEvents) /\ WF_vars(GetSaleEvents) /\ WF_vars(AwaitAllEvents)

----------------------------------------------------------------------------
(* Properties of the web client                                            *)

\* the stages dispatched so far, in order
RECURSIVE Stages(_)
Stages(actions) ==
    IF actions = <<>> THEN <<>>
    ELSE LET rest == Stages(SubSeq(actions, 1, Len(actions) - 1))
             last == actions[Len(actions)]
         IN  IF last.type = "CHANGE_PURCHASE_STEP" THEN Append(rest, last.purchaseStage)
             ELSE rest
\* the stage the purchase flow is in
Stage == IF Stages(dispatched) = <<>> THEN "none"
         ELSE Stages(dispatched)[Len(Stages(dispatched))]
\* what the step has dispatched
Dispatches == SubSeq(dispatched', Len(dispatched) + 1, Len(dispatched'))

\* C31: a purchasePlot that has dispatched WAITING_FOR_UNLOCK eventually
\* dispatches USER_CONFIRM or ERROR, whichever of its awaits fails.  The step
\* that dispatches USER_CONFIRM dispatches the pending transaction,
\* togglePurchaseFlow, USER_CONFIRM and resetPurchaseFlow, in this order; the
\* step that dispatches ERROR dispatches togglePurchaseFlow and ERROR, records
\* no transaction and returns ''; with invalid purchase info the thunk throws
\* and dispatches nothing.
C31_PurchaseFlowEnds ==
    /\ (Stage = "WAITING_FOR_UNLOCK") ~> (Stage \in {"USER_CONFIRM", "ERROR"})
    /\ [][/\ (Stage' = "USER_CONFIRM" /\ Stage # "USER_CONFIRM") =>
               /\ Len(Dispatches) = 4
               /\ Dispatches[1].type = "ADD_TRANSACTION"
               /\ Dispatches[1].txStatus = "PENDING"
               /\ Dispatches[2] = togglePurchaseFlow
               /\ Dispatches[3] = changePurchaseStep("USER_CONFIRM")
               /\ Dispatches[4] = resetPurchaseFlow
          /\ (Stage' = "ERROR" /\ Stage # "ERROR") =>
               /\ Dispatches = <<togglePurchaseFlow, changePurchaseStep("ERROR")>>
               /\ purchaseRun'.result = ""
          /\ (purchaseRun' # purchaseRun /\ purchaseRun'.pc = "threw") =>
               Dispatches = <<>>]_vars

\* C32: a transaction handed to a watch callback is added to the list with
\* isNew = TRUE, and a transaction read from the history of the chain with
\* isNew = FALSE.
C32_WatchedTransactionsAreNew ==
    [][\A k \in 1 .. Len(Dispatches) :
          Dispatches[k].type = "ADD_TRANSACTION" =>
             /\ watched' # watched => Dispatches[k].isNew = TRUE
             /\ fetchRun' # fetchRun => Dispatches[k].isNew = FALSE]_vars

====
